---- MODULE Spec2Model ----
(***************************************************************************)
(* A model of the CRAM I/O primitives of io_lib/cram_io.c: the ITF8/LTF8   *)
(* integer codecs, blocks (read, write, compress, uncompress), container   *)
(* headers and the container flush.                                        *)
(*                                                                         *)
(* Machine integers are modelled at their width.  An int32_t/int64_t that  *)
(* takes part in bit operations is a "word": a sequence of 32 or 64 bits,  *)
(* least significant bit first, so that shifts, masks and the sign bit     *)
(* behave as in two's complement.  Small quantities (sizes, counters) are  *)
(* ordinary integers.                                                      *)
(***************************************************************************)
EXTENDS Integers, Sequences, FiniteSets, TLC

VARIABLES pc, fd, b, c, metrics, val, buf, ret, hist, wlog

vars == <<pc, fd, b, c, metrics, val, buf, ret, hist, wlog>>

\* Values that are not integers (a pointer that is NULL, a variable a
\* specification does not use).
NULL == "NULL"

\* Throughout, CHOOSE y \in {e(v) : v \in {x}} : TRUE is e(x), the value of
\* x being computed once whatever the number of times e uses it.

(***************************************************************************)
(* Bounds of the model.                                                    *)
(***************************************************************************)
MaxLen == 2

MaxWrites == 1

MaxCompress == 2

(***************************************************************************)
(* Words: two's complement integers of a fixed width.                      *)
(***************************************************************************)
W32 == 32

W64 == 64

\* An unsigned constant n < 2^31 as a word of w bits.
Nat2W(n, w) == [i \in 1..w |-> IF i <= 31 THEN (n \div (2^(i-1))) % 2 ELSE 0]

K32(n) == Nat2W(n, W32)

K64(n) == Nat2W(n, W64)

\* a & b0, a | b0, ~a
And(a, b0) == [i \in 1..Len(a) |-> a[i] * b0[i]]

Or(a, b0) == [i \in 1..Len(a) |-> IF a[i] + b0[i] > 0 THEN 1 ELSE 0]

Not(a) == [i \in 1..Len(a) |-> 1 - a[i]]

\* a << k (bits shifted out at the top are lost)
Shl(a, k) == [i \in 1..Len(a) |-> IF i > k THEN a[i-k] ELSE 0]

\* a >> k on a signed operand: the sign bit is replicated
Sar(a, k) == [i \in 1..Len(a) |-> IF i + k <= Len(a) THEN a[i+k] ELSE a[Len(a)]]

\* (1 << n) - 1 at width w
LowMask(n, w) == [i \in 1..w |-> IF i <= n THEN 1 ELSE 0]

IsZero(a) == \A i \in 1..Len(a) : a[i] = 0

\* The conversion to (unsigned) char: the low eight bits.
ToByte(a) == a[1] + 2*a[2] + 4*a[3] + 8*a[4] + 16*a[5] + 32*a[6] + 64*a[7] + 128*a[8]

\* The value of bits 1..n of a, for n <= 31.
RECURSIVE LowNat(_, _)
LowNat(a, n) == IF n = 0 THEN 0 ELSE a[n] * (2^(n-1)) + LowNat(a, n-1)

\* A 32-bit word as the int32_t it denotes, and back.
W2I(a) == IF a[32] = 1 THEN (0 - LowNat(Not(a), 31)) - 1 ELSE LowNat(a, 31)

I2W(n) == IF n >= 0 THEN K32(n) ELSE Not(K32(0 - (n + 1)))

\* Widening of an int32_t to 64 bits (sign extension).
Sext64(a) == [i \in 1..W64 |-> IF i <= 32 THEN a[i] ELSE a[32]]

(***************************************************************************)
(* ITF8 and LTF8 in memory: itf8_put, itf8_get, ltf8_put, ltf8_get.        *)
(* A put returns the bytes it stores (their number is its return value);   *)
(* a get takes the buffer cp and returns the value and the bytes consumed. *)
(***************************************************************************)

\* (val >> s) & 0xff, stored to a char
ShrByte(v, s) == ToByte(And(Sar(v, s), Nat2W(255, Len(v))))

\* ((val >> s) | tag), stored to a char
ShrTag(v, s, tag) == ToByte(Or(Sar(v, s), Nat2W(tag, Len(v))))

\* itf8_put with the 4-byte test made against 0x1fffffff: a value that has
\* bit 28 set is then stored in four bytes under a first byte of 0xf.
itf8_put_wide4(v) ==
    IF IsZero(And(v, Not(K32(127)))) THEN <<ToByte(v)>>
    ELSE IF IsZero(And(v, Not(K32(16383)))) THEN
        <<ShrTag(v, 8, 128), ShrByte(v, 0)>>
    ELSE IF IsZero(And(v, Not(K32(2097151)))) THEN
        <<ShrTag(v, 16, 192), ShrByte(v, 8), ShrByte(v, 0)>>
    ELSE IF IsZero(And(v, Not(K32(536870911)))) THEN
        <<ShrTag(v, 24, 224), ShrByte(v, 16), ShrByte(v, 8), ShrByte(v, 0)>>
    ELSE
        <<ToByte(Or(K32(240), And(Sar(v, 28), K32(255)))),
          ShrByte(v, 20), ShrByte(v, 12), ShrByte(v, 4),
          ToByte(And(v, K32(15)))>>

itf8_put(v) ==
    IF IsZero(And(v, Not(K32(127)))) THEN <<ToByte(v)>>
    ELSE IF IsZero(And(v, Not(K32(16383)))) THEN
        <<ShrTag(v, 8, 128), ShrByte(v, 0)>>
    ELSE IF IsZero(And(v, Not(K32(2097151)))) THEN
        <<ShrTag(v, 16, 192), ShrByte(v, 8), ShrByte(v, 0)>>
    ELSE IF IsZero(And(v, Not(K32(268435455)))) THEN
        <<ShrTag(v, 24, 224), ShrByte(v, 16), ShrByte(v, 8), ShrByte(v, 0)>>
    ELSE
        <<ToByte(Or(K32(240), And(Sar(v, 28), K32(255)))),
          ShrByte(v, 20), ShrByte(v, 12), ShrByte(v, 4),
          ToByte(And(v, K32(15)))>>

\* itf8_put of an int.
Itf8Of(n) == CHOOSE y \in {itf8_put(v) : v \in {I2W(n)}} : TRUE

\* up[i] << s as an int (itf8_get) or as a uint64_t (ltf8_get)
Up(cp, i, s, w) == Shl(Nat2W(cp[i+1], w), s)

itf8_get(cp) ==
    IF cp[1] < 128 THEN [n |-> 1, val |-> K32(cp[1])]
    ELSE IF cp[1] < 192 THEN
        [n |-> 2, val |-> And(Or(Up(cp,0,8,W32), Up(cp,1,0,W32)), K32(16383))]
    ELSE IF cp[1] < 224 THEN
        [n |-> 3, val |-> And(Or(Up(cp,0,16,W32), Or(Up(cp,1,8,W32), Up(cp,2,0,W32))),
                              K32(2097151))]
    ELSE IF cp[1] < 240 THEN
        [n |-> 4, val |-> And(Or(Up(cp,0,24,W32), Or(Up(cp,1,16,W32),
                              Or(Up(cp,2,8,W32), Up(cp,3,0,W32)))), K32(268435455))]
    ELSE
        [n |-> 5, val |-> Or(Shl(And(K32(cp[1]), K32(15)), 28), Or(Up(cp,1,20,W32),
                          Or(Up(cp,2,12,W32), Or(Up(cp,3,4,W32),
                             And(K32(cp[5]), K32(15))))))]

\* The k bytes (val >> 8*(k-1)) & 0xff, ..., val & 0xff
RECURSIVE TailBytes(_, _)
TailBytes(v, k) == IF k = 0 THEN <<>> ELSE <<ShrByte(v, 8*(k-1))>> \o TailBytes(v, k-1)

\* ltf8_put without the three-byte case: a value that needs 15 to 21 bits
\* is stored in four bytes, which ltf8_get reads back unchanged.
ltf8_put_no3(v) ==
    IF IsZero(And(v, Not(LowMask(7, W64)))) THEN <<ToByte(v)>>
    ELSE IF IsZero(And(v, Not(LowMask(6+8, W64)))) THEN
        <<ShrTag(v, 8, 128)>> \o TailBytes(v, 1)
    ELSE IF IsZero(And(v, Not(LowMask(4+3*8, W64)))) THEN
        <<ShrTag(v, 24, 224)>> \o TailBytes(v, 3)
    ELSE IF IsZero(And(v, Not(LowMask(3+4*8, W64)))) THEN
        <<ShrTag(v, 32, 240)>> \o TailBytes(v, 4)
    ELSE IF IsZero(And(v, Not(LowMask(2+5*8, W64)))) THEN
        <<ShrTag(v, 40, 248)>> \o TailBytes(v, 5)
    ELSE IF IsZero(And(v, Not(LowMask(1+6*8, W64)))) THEN
        <<ShrTag(v, 48, 252)>> \o TailBytes(v, 6)
    ELSE IF IsZero(And(v, Not(LowMask(7*8, W64)))) THEN
        <<ShrTag(v, 56, 254)>> \o TailBytes(v, 7)
    ELSE
        <<255>> \o TailBytes(v, 8)

ltf8_put(v) ==
    IF IsZero(And(v, Not(LowMask(7, W64)))) THEN <<ToByte(v)>>
    ELSE IF IsZero(And(v, Not(LowMask(6+8, W64)))) THEN
        <<ShrTag(v, 8, 128)>> \o TailBytes(v, 1)
    ELSE IF IsZero(And(v, Not(LowMask(5+2*8, W64)))) THEN
        <<ShrTag(v, 16, 192)>> \o TailBytes(v, 2)
    ELSE IF IsZero(And(v, Not(LowMask(4+3*8, W64)))) THEN
        <<ShrTag(v, 24, 224)>> \o TailBytes(v, 3)
    ELSE IF IsZero(And(v, Not(LowMask(3+4*8, W64)))) THEN
        <<ShrTag(v, 32, 240)>> \o TailBytes(v, 4)
    ELSE IF IsZero(And(v, Not(LowMask(2+5*8, W64)))) THEN
        <<ShrTag(v, 40, 248)>> \o TailBytes(v, 5)
    ELSE IF IsZero(And(v, Not(LowMask(1+6*8, W64)))) THEN
        <<ShrTag(v, 48, 252)>> \o TailBytes(v, 6)
    ELSE IF IsZero(And(v, Not(LowMask(7*8, W64)))) THEN
        <<ShrTag(v, 56, 254)>> \o TailBytes(v, 7)
    ELSE
        <<255>> \o TailBytes(v, 8)

\* (uint64_t)up[from] << 8*(k-1) | ... | (uint64_t)up[from+k-1]
RECURSIVE UpOr(_, _, _)
UpOr(cp, from, k) ==
    IF k = 0 THEN K64(0)
    ELSE Or(Up(cp, from, 8*(k-1), W64), UpOr(cp, from+1, k-1))

ltf8_get(cp) ==
    IF cp[1] < 128 THEN [n |-> 1, val |-> K64(cp[1])]
    ELSE IF cp[1] < 192 THEN [n |-> 2, val |-> And(UpOr(cp, 0, 2), LowMask(6+8, W64))]
    ELSE IF cp[1] < 224 THEN [n |-> 3, val |-> And(UpOr(cp, 0, 3), LowMask(5+2*8, W64))]
    ELSE IF cp[1] < 240 THEN [n |-> 4, val |-> And(UpOr(cp, 0, 4), LowMask(4+3*8, W64))]
    ELSE IF cp[1] < 248 THEN [n |-> 5, val |-> And(UpOr(cp, 0, 5), LowMask(3+4*8, W64))]
    ELSE IF cp[1] < 252 THEN [n |-> 6, val |-> And(UpOr(cp, 0, 6), LowMask(2+5*8, W64))]
    ELSE IF cp[1] < 254 THEN [n |-> 7, val |-> And(UpOr(cp, 0, 7), LowMask(1+6*8, W64))]
    ELSE IF cp[1] < 255 THEN [n |-> 8, val |-> And(UpOr(cp, 1, 7), LowMask(7*8, W64))]
    ELSE [n |-> 9, val |-> UpOr(cp, 1, 8)]

(***************************************************************************)
(* Streams.  fd.fp is the byte content of the file, fd.pos the offset of   *)
(* the next byte to read.  getc returns the byte, or EOF (-1) at the end.  *)
(***************************************************************************)
EOF == -1

\* The k-th getc (k = 0 for the first) of a run of getc calls started at pos.
Getc(fp, pos, k) == IF pos + k < Len(fp) THEN fp[pos + k + 1] ELSE EOF

\* (unsigned char)c: EOF becomes 0xff
UChar(ch) == IF ch = EOF THEN 255 ELSE ch

\* The file offset after n getc calls started at pos.
Advance(fp, pos, n) == IF pos + n <= Len(fp) THEN pos + n ELSE Len(fp)

\* n times: val = (val << 8) | (unsigned char)getc(fd->fp), the first of
\* them being getc number k.
RECURSIVE Accum(_, _, _, _, _)
Accum(v, fp, pos, k, n) ==
    IF n = 0 THEN v
    ELSE Accum(Or(Shl(v, 8), Nat2W(UChar(Getc(fp, pos, k)), Len(v))), fp, pos, k+1, n-1)

nbytes == <<0,0,0,0, 0,0,0,0, 1,1,1,1, 2,2, 3, 4>>

nbits == <<127,127,127,127, 127,127,127,127, 63,63,63,63, 31,31, 15, 15>>

\* itf8_decode: [ret, val, pos]; val is what was stored in *val_p (<<>>
\* when nothing was).
itf8_decode(fp, pos) ==
    LET first == Getc(fp, pos, 0) IN
    IF first = EOF THEN [ret |-> -1, val |-> <<>>, pos |-> pos]
    ELSE
      LET i  == nbytes[(first \div 16) + 1]
          v0 == And(K32(first), K32(nbits[(first \div 16) + 1]))
      IN  IF i < 4
          THEN [ret |-> i + 1, val |-> Accum(v0, fp, pos, 1, i),
                pos |-> Advance(fp, pos, i + 1)]
          ELSE [ret |-> 5,
                val |-> Or(Shl(Accum(v0, fp, pos, 1, 3), 4),
                           K32(UChar(Getc(fp, pos, 4)) % 16)),
                pos |-> Advance(fp, pos, 5)]

\* The number of bytes that follow a first byte of an LTF8 value, and the
\* mask applied to the accumulated value.
ltf8_more(first) ==
    IF first < 128 THEN 0 ELSE IF first < 192 THEN 1 ELSE IF first < 224 THEN 2
    ELSE IF first < 240 THEN 3 ELSE IF first < 248 THEN 4 ELSE IF first < 252 THEN 5
    ELSE IF first < 254 THEN 6 ELSE IF first < 255 THEN 7 ELSE 8

ltf8_mask(n) ==
    IF n = 0 THEN LowMask(8, W64) ELSE IF n = 8 THEN LowMask(W64, W64)
    ELSE LowMask(7 * (n + 1), W64)

ltf8_decode(fp, pos) ==
    LET first == Getc(fp, pos, 0) IN
    IF first = EOF THEN [ret |-> -1, val |-> <<>>, pos |-> pos]
    ELSE
      LET n == ltf8_more(first) IN
      [ret |-> n + 1,
       val |-> And(Accum(K64(first), fp, pos, 1, n), ltf8_mask(n)),
       pos |-> Advance(fp, pos, n + 1)]

\* fwrite of the bytes bs when the device takes `room` more bytes: the new
\* file content and the number of bytes written.
Min(x, y) == IF x <= y THEN x ELSE y

fwrite(fp, bs, room) ==
    [fp |-> fp \o SubSeq(bs, 1, Min(Len(bs), room)), n |-> Min(Len(bs), room)]

\* itf8_encode: itf8_put into a local buffer, then fwrite.
itf8_encode(fp, v, room) ==
    LET w == fwrite(fp, itf8_put(v), room) IN
    [fp |-> w.fp, ret |-> IF w.n = Len(itf8_put(v)) THEN 0 ELSE -1]


(***************************************************************************)
(* The compression libraries.  zlib and bzip2 are outside the repository;  *)
(* each is modelled by a small codec of the same shape: a magic byte and   *)
(* the strategy, a body, and the length of the input as a trailer.  The    *)
(* strategy Z_RLE codes the body as (count, byte) runs, every other        *)
(* strategy stores it, so the two candidates of cram_compress_block give   *)
(* different sizes, and an inflate really has to undo a deflate.           *)
(***************************************************************************)
Z_DEFAULT_STRATEGY == 0

Z_FILTERED == 1

Z_RLE == 3

GZ_MAGIC == 31

BZ_MAGIC == 66

\* The n bytes at the start of a buffer; bytes past its end (a read beyond
\* the allocation) are `pad`.
Bytes(data, n, pad) == [i \in 1..n |-> IF i <= Len(data) THEN data[i] ELSE pad]

\* The length of the run of equal bytes that starts at bs[i].
RunLen(bs, i) ==
    (CHOOSE e \in i..Len(bs) :
        /\ \A k \in i..e : bs[k] = bs[i]
        /\ e = Len(bs) \/ bs[e+1] # bs[i]) - i + 1

RECURSIVE RleEnc(_, _)
RleEnc(bs, i) ==
    IF i > Len(bs) THEN <<>>
    ELSE <<RunLen(bs, i), bs[i]>> \o RleEnc(bs, i + RunLen(bs, i))

RECURSIVE RleDec(_, _)
RleDec(cs, i) ==
    IF i + 1 > Len(cs) THEN <<>>
    ELSE [k \in 1..cs[i] |-> cs[i+1]] \o RleDec(cs, i+2)

\* zlib_mem_deflate(data, size, &cdata_size, level, strat): the compressed
\* bytes (cdata_size is their number).
zlib_mem_deflate(bs, strat) ==
    <<GZ_MAGIC, strat>>
      \o (IF strat = Z_RLE THEN RleEnc(bs, 1) ELSE bs)
      \o <<Len(bs)>>

\* zlib_mem_inflate(cdata, csize, &size): the bytes inflate produced (size
\* is their number).  On an inflate error the loop is left and what was
\* produced until then is returned: nothing for a stream without the magic,
\* the body for a stream whose trailer is missing or wrong.
zlib_mem_inflate(cs) ==
    IF Len(cs) < 2 \/ cs[1] # GZ_MAGIC THEN <<>>
    ELSE IF cs[2] = Z_RLE THEN RleDec(SubSeq(cs, 3, Len(cs) - 1), 1)
    ELSE SubSeq(cs, 3, Len(cs) - 1)

\* BZ2_bzBuffToBuffCompress and BZ2_bzBuffToBuffDecompress; the latter
\* fails on a stream it cannot decode and when the output does not fit in
\* the usize bytes of the destination.
bz2_compress(bs) == <<BZ_MAGIC>> \o bs \o <<Len(bs)>>

bz2_decompress(cs, usize) ==
    IF Len(cs) < 2 \/ cs[1] # BZ_MAGIC \/ cs[Len(cs)] # Len(cs) - 2
         \/ Len(cs) - 2 > usize
    THEN [ok |-> FALSE, out |-> <<>>]
    ELSE [ok |-> TRUE, out |-> SubSeq(cs, 2, Len(cs) - 1)]

\* The build: the Makefile defines neither HAVE_LIBBZ2 nor NDEBUG.
HAVE_LIBBZ2 == FALSE

(***************************************************************************)
(* Blocks.                                                                 *)
(***************************************************************************)
RAW == 0

GZIP == 1

BZIP2 == 2

FILE_HEADER == 0

COMPRESSION_HEADER == 1

MAPPED_SLICE == 2

UNMAPPED_SLICE == 3

EXTERNAL == 4

CORE == 5

\* cram_new_block
cram_new_block(content_type, content_id) ==
    [method |-> RAW, orig_method |-> RAW, content_type |-> content_type,
     content_id |-> content_id, comp_size |-> 0, uncomp_size |-> 0,
     data |-> <<>>, byte |-> 0]

\* BLOCK_APPEND(b, s, l) followed by BLOCK_UPLEN(b): the bytes are added at
\* b->byte and both sizes are set to the new b->byte.
block_append(blk, bs) ==
    [blk EXCEPT !.data = SubSeq(blk.data, 1, blk.byte) \o bs,
                !.byte = blk.byte + Len(bs),
                !.comp_size = blk.byte + Len(bs),
                !.uncomp_size = blk.byte + Len(bs)]

\* The number of payload bytes a block has on the wire.
WireSize(blk) == IF blk.method = RAW THEN blk.uncomp_size ELSE blk.comp_size

\* The condition cram_write_block asserts.
WriteAssert(blk) == blk.method # RAW \/ blk.comp_size = blk.uncomp_size

\* The bytes cram_write_block sends for a block, in order.
WireHeader(blk) ==
    <<blk.method, blk.content_type>>
      \o Itf8Of(blk.content_id)
      \o Itf8Of(blk.comp_size)
      \o Itf8Of(blk.uncomp_size)

WireBlock(blk, pad) == WireHeader(blk) \o Bytes(blk.data, WireSize(blk), pad)

\* cram_write_block, the assertion having passed: every putc, itf8_encode
\* and fwrite is checked and the first short one ends the call, so the file
\* receives the first `room` bytes and the call succeeds when all fitted.
cram_write_block(fp, blk, room, pad) ==
    CHOOSE y \in {[fp |-> fwrite(fp, bs, room).fp,
                   ret |-> IF fwrite(fp, bs, room).n = Len(bs) THEN 0 ELSE -1] :
                    bs \in {WireBlock(blk, pad)}} : TRUE

\* The block pointer NULL.
NoBlock ==
    [method |-> -1, orig_method |-> -1, content_type |-> -1, content_id |-> 0,
     comp_size |-> 0, uncomp_size |-> 0, data |-> <<>>, byte |-> 0]

\* malloc(n) and fread of n bytes at pos succeed: the allocation fails for
\* a negative int (a huge size_t), the read when the file is short.
\* malloc(0) returns a pointer, as with glibc.
PayloadOk(fp, pos, n) == n >= 0 /\ pos + n <= Len(fp)

\* cram_read_block taking the content id from one byte, as it takes the
\* method and the content type.
cram_read_block_idbyte(fp, pos) ==
    LET m   == Getc(fp, pos, 0)
        ct  == Getc(fp, pos, 1)
        d1  == itf8_decode(fp, pos + 2)
        d2  == itf8_decode(fp, d1.pos)
        d3  == itf8_decode(fp, d2.pos)
        fail == [b |-> NoBlock, pos |-> Len(fp)]
    IN  IF m = EOF \/ ct = EOF THEN fail
        ELSE IF d1.ret = -1 THEN fail
        ELSE IF d2.ret = -1 THEN fail
        ELSE IF d3.ret = -1 THEN fail
        ELSE
          LET n == IF m = RAW THEN W2I(d3.val) ELSE W2I(d2.val)
          IN  IF ~PayloadOk(fp, d3.pos, n) THEN fail
              ELSE [b |-> [method |-> m, orig_method |-> m, content_type |-> ct,
                           content_id |-> Getc(fp, pos, 2), comp_size |-> W2I(d2.val),
                           uncomp_size |-> W2I(d3.val),
                           data |-> SubSeq(fp, d3.pos + 1, d3.pos + n), byte |-> 0],
                    pos |-> d3.pos + n]

\* cram_read_block with the payload size taken from uncomp_size for a RAW
\* block and from comp_size otherwise.
cram_read_block(fp, pos) ==
    LET m   == Getc(fp, pos, 0)
        ct  == Getc(fp, pos, 1)
        d1  == itf8_decode(fp, pos + 2)
        d2  == itf8_decode(fp, d1.pos)
        d3  == itf8_decode(fp, d2.pos)
        fail == [b |-> NoBlock, pos |-> Len(fp)]
    IN  IF m = EOF \/ ct = EOF THEN fail
        ELSE IF d1.ret = -1 THEN fail
        ELSE IF d2.ret = -1 THEN fail
        ELSE IF d3.ret = -1 THEN fail
        ELSE
          LET n == IF m = RAW THEN W2I(d3.val) ELSE W2I(d2.val)
          IN  IF ~PayloadOk(fp, d3.pos, n) THEN fail
              ELSE [b |-> [method |-> m, orig_method |-> m, content_type |-> ct,
                           content_id |-> W2I(d1.val), comp_size |-> W2I(d2.val),
                           uncomp_size |-> W2I(d3.val),
                           data |-> SubSeq(fp, d3.pos + 1, d3.pos + n), byte |-> 0],
                    pos |-> d3.pos + n]

\* cram_uncompress_block leaving the inflated bytes out of the block.
cram_uncompress_block_nodata(blk, pad) ==
    IF blk.uncomp_size = 0 THEN [b |-> [blk EXCEPT !.method = RAW], ret |-> 0, abort |-> FALSE]
    ELSE IF blk.method = RAW THEN
        [b |-> [blk EXCEPT !.uncomp_size = blk.comp_size], ret |-> 0, abort |-> FALSE]
    ELSE IF blk.method = GZIP THEN
        LET uncomp == zlib_mem_inflate(Bytes(blk.data, blk.comp_size, pad)) IN
        IF Len(uncomp) # blk.uncomp_size THEN [b |-> blk, ret |-> -1, abort |-> TRUE]
        ELSE [b |-> [blk EXCEPT !.method = RAW], ret |-> 0, abort |-> FALSE]
    ELSE [b |-> blk, ret |-> -1, abort |-> TRUE]

\* cram_uncompress_block: [b, ret, abort]; abort tells that the call ended
\* the process (the failed assertion, or the bzip2 case of a build without
\* bzip2) and did not return.
cram_uncompress_block(blk, pad) ==
    IF blk.uncomp_size = 0 THEN [b |-> [blk EXCEPT !.method = RAW], ret |-> 0, abort |-> FALSE]
    ELSE IF blk.method = RAW THEN
        [b |-> [blk EXCEPT !.uncomp_size = blk.comp_size], ret |-> 0, abort |-> FALSE]
    ELSE IF blk.method = GZIP THEN
        LET uncomp == zlib_mem_inflate(Bytes(blk.data, blk.comp_size, pad)) IN
        IF Len(uncomp) # blk.uncomp_size THEN [b |-> blk, ret |-> -1, abort |-> TRUE]
        ELSE [b |-> [blk EXCEPT !.data = uncomp, !.method = RAW], ret |-> 0, abort |-> FALSE]
    ELSE IF blk.method = BZIP2 THEN
        IF HAVE_LIBBZ2 THEN
            LET d == bz2_decompress(Bytes(blk.data, blk.comp_size, pad), blk.uncomp_size) IN
            IF blk.uncomp_size < 0 \/ ~d.ok THEN [b |-> blk, ret |-> -1, abort |-> FALSE]
            ELSE [b |-> [blk EXCEPT !.data = d.out, !.method = RAW,
                                    !.uncomp_size = Len(d.out)], ret |-> 0, abort |-> FALSE]
        ELSE [b |-> blk, ret |-> -1, abort |-> TRUE]
    ELSE [b |-> blk, ret |-> 0, abort |-> FALSE]

\* cram_new_metrics without the initial trial episode.
cram_new_metrics_notrial == [m1 |-> 0, m2 |-> 0, trial |-> 0, next_trial |-> 100]

\* cram_new_metrics
cram_new_metrics == [m1 |-> 0, m2 |-> 0, trial |-> 2, next_trial |-> 100]

\* cram_compress_block_bzip2
cram_compress_block_bzip2(blk, pad) ==
    [blk EXCEPT !.data = bz2_compress(Bytes(blk.data, blk.uncomp_size, pad)),
                !.method = BZIP2,
                !.comp_size = Len(bz2_compress(Bytes(blk.data, blk.uncomp_size, pad)))]

\* The block with the compressed bytes comp stored in it (the end of
\* cram_compress_block).
StoreGzip(blk, comp) ==
    [blk EXCEPT !.data = comp, !.method = GZIP, !.comp_size = Len(comp)]

\* The comparison of a trial call with the equal sign let through.
FirstWins_le(s1, s2) == 100 * s1 <= 98 * s2

\* s1 < 0.98 * s2, the sizes being far below 2^53: an integer s1 is below
\* the double product exactly when 100*s1 < 98*s2.
FirstWins(s1, s2) == 100 * s1 < 98 * s2

\* cram_compress_block without the level 0 case: [b, metrics, ret].  mem
\* tells whether the allocations of the compressed buffers succeed.
cram_compress_block_nz(use_bz2, blk, m, strat, strat2, mem, pad) ==
    LET in == Bytes(blk.data, blk.uncomp_size, pad) IN
    IF blk.method # RAW THEN [b |-> blk, metrics |-> m, ret |-> 0]
    ELSE IF HAVE_LIBBZ2 /\ use_bz2 # 0 THEN
        IF mem THEN [b |-> cram_compress_block_bzip2(blk, pad), metrics |-> m, ret |-> 0]
        ELSE [b |-> blk, metrics |-> m, ret |-> -1]
    ELSE IF strat2 >= 0 /\ (m.trial # 0 \/ m.next_trial - 1 = 0) THEN
        LET nt == IF m.trial # 0 THEN m.next_trial ELSE m.next_trial - 1
            m0 == IF nt = 0
                  THEN [m EXCEPT !.next_trial = 100, !.trial = 2, !.m1 = 0, !.m2 = 0]
                  ELSE [m EXCEPT !.next_trial = nt, !.trial = m.trial - 1]
            c1 == zlib_mem_deflate(in, strat)
            c2 == zlib_mem_deflate(in, strat2)
        IN  IF ~mem THEN [b |-> blk, metrics |-> m0, ret |-> -1]
            ELSE IF FirstWins(Len(c1), Len(c2))
            THEN [b |-> StoreGzip(blk, c1), metrics |-> [m0 EXCEPT !.m1 = m0.m1 + 1],
                  ret |-> 0]
            ELSE [b |-> StoreGzip(blk, c2), metrics |-> [m0 EXCEPT !.m2 = m0.m2 + 1],
                  ret |-> 0]
    ELSE IF strat2 >= 0 THEN
        LET m0 == [m EXCEPT !.next_trial = m.next_trial - 1] IN
        IF ~mem THEN [b |-> blk, metrics |-> m0, ret |-> -1]
        ELSE [b |-> StoreGzip(blk, zlib_mem_deflate(in,
                                  IF m0.m1 > m0.m2 THEN strat ELSE strat2)),
              metrics |-> m0, ret |-> 0]
    ELSE
        IF ~mem THEN [b |-> blk, metrics |-> m, ret |-> -1]
        ELSE [b |-> StoreGzip(blk, zlib_mem_deflate(in, strat)), metrics |-> m, ret |-> 0]

\* cram_compress_block taking every block for a RAW one.
cram_compress_block_again(use_bz2, blk, m, level, strat, strat2, mem, pad) ==
    IF level = 0
    THEN [b |-> [blk EXCEPT !.method = RAW, !.comp_size = blk.uncomp_size],
          metrics |-> m, ret |-> 0]
    ELSE cram_compress_block_nz(use_bz2, [blk EXCEPT !.method = RAW], m, strat, strat2,
                                mem, pad)

\* cram_compress_block leaving metrics->trial as it was.
cram_compress_block_keeptrial(use_bz2, blk, m, level, strat, strat2, mem, pad) ==
    IF level = 0
    THEN [b |-> [blk EXCEPT !.method = RAW, !.comp_size = blk.uncomp_size],
          metrics |-> m, ret |-> 0]
    ELSE [cram_compress_block_nz(use_bz2, blk, m, strat, strat2, mem, pad)
            EXCEPT !.metrics.trial = m.trial]

\* cram_compress_block
cram_compress_block(use_bz2, blk, m, level, strat, strat2, mem, pad) ==
    IF level = 0
    THEN [b |-> [blk EXCEPT !.method = RAW, !.comp_size = blk.uncomp_size],
          metrics |-> m, ret |-> 0]
    ELSE cram_compress_block_nz(use_bz2, blk, m, strat, strat2, mem, pad)

(***************************************************************************)
(* The codec on its own: a value is encoded in memory (itf8_put, ltf8_put) *)
(* and decoded from memory (itf8_get, ltf8_get), or it is written to a     *)
(* file, which may take fewer bytes than asked, and decoded from the file  *)
(* (itf8_decode, ltf8_decode).                                             *)
(***************************************************************************)
Idle == "-"

\* The values tried: 0, the powers of two and their predecessors, and the
\* complements of all of them, at either width.
Patterns(w) == {LowMask(k, w) : k \in 0..w} \cup {Shl(Nat2W(1, w), k) : k \in 0..(w-1)}

Inputs(w) == Patterns(w) \cup {Not(x) : x \in Patterns(w)}

\* What follows the encoded bytes in the caller's buffer.
Junk == {0, 255}

Padded(bs, j) == bs \o <<j, j, j, j, j, j, j, j>>

FdCodec == [mode |-> "w", fp |-> <<>>, pos |-> 0]

InitCodec ==
    /\ pc = "start"
    /\ val \in Inputs(W32) \cup Inputs(W64)
    /\ buf = <<>>
    /\ ret = Idle
    /\ fd = FdCodec
    /\ b = Idle /\ c = Idle /\ metrics = Idle /\ hist = <<>> /\ wlog = <<>>

Itf8Put ==
    /\ pc = "start" /\ Len(val) = W32
    /\ buf' = itf8_put(val)
    /\ pc' = "put"
    /\ UNCHANGED <<fd, b, c, metrics, val, ret, hist, wlog>>

Ltf8Put ==
    /\ pc = "start" /\ Len(val) = W64
    /\ buf' = ltf8_put(val)
    /\ pc' = "put"
    /\ UNCHANGED <<fd, b, c, metrics, val, ret, hist, wlog>>

Itf8Get ==
    /\ pc = "put" /\ Len(val) = W32
    /\ \E j \in Junk : ret' = itf8_get(Padded(buf, j))
    /\ pc' = "got"
    /\ UNCHANGED <<fd, b, c, metrics, val, buf, hist, wlog>>

Ltf8Get ==
    /\ pc = "put" /\ Len(val) = W64
    /\ \E j \in Junk : ret' = ltf8_get(Padded(buf, j))
    /\ pc' = "got"
    /\ UNCHANGED <<fd, b, c, metrics, val, buf, hist, wlog>>

\* The encoded bytes go to the file; the device takes `room` of them.
WriteBuf ==
    /\ pc = "put"
    /\ \E room \in 0..Len(buf) : fd' = [fd EXCEPT !.fp = fwrite(fd.fp, buf, room).fp]
    /\ pc' = "written"
    /\ UNCHANGED <<b, c, metrics, val, buf, ret, hist, wlog>>

Itf8Decode ==
    /\ pc = "written" /\ Len(val) = W32
    /\ ret' = itf8_decode(fd.fp, fd.pos)
    /\ fd' = [fd EXCEPT !.mode = "r", !.pos = itf8_decode(fd.fp, fd.pos).pos]
    /\ pc' = "decoded"
    /\ UNCHANGED <<b, c, metrics, val, buf, hist, wlog>>

Ltf8Decode ==
    /\ pc = "written" /\ Len(val) = W64
    /\ ret' = ltf8_decode(fd.fp, fd.pos)
    /\ fd' = [fd EXCEPT !.mode = "r", !.pos = ltf8_decode(fd.fp, fd.pos).pos]
    /\ pc' = "decoded"
    /\ UNCHANGED <<b, c, metrics, val, buf, hist, wlog>>

NextCodec ==
    \/ Itf8Put \/ Ltf8Put \/ Itf8Get \/ Ltf8Get
    \/ WriteBuf \/ Itf8Decode \/ Ltf8Decode

SpecCodec == InitCodec /\ [][NextCodec]_vars

(***************************************************************************)
(* C1: for every 32-bit value, negative ones included, itf8_get of the     *)
(* bytes itf8_put wrote yields the value and consumes exactly the bytes    *)
(* itf8_put returned, whatever follows them in the buffer; the same for    *)
(* every 64-bit value with ltf8_put and ltf8_get.                          *)
(***************************************************************************)
C1_VarintRoundTrip ==
    pc = "got" => (ret.val = val /\ ret.n = Len(buf))

\* A negative 32-bit value came back from its five bytes.
C1_Witness ==
    pc = "got" /\ Len(val) = W32 /\ val[W32] = 1 /\ ret.n = 5 /\ ret.val = val

(***************************************************************************)
(* C10: itf8_decode and ltf8_decode return -1 whenever the file ends       *)
(* before all bytes of the value have been read, at any byte position of   *)
(* the value.                                                              *)
(***************************************************************************)
C10_TruncatedValueFails ==
    (pc = "decoded" /\ Len(fd.fp) < Len(buf)) => ret.ret = -1


(***************************************************************************)
(* C19: itf8_put and ltf8_put emit the minimal byte count of the format:   *)
(* itf8_put 1, 2, 3, 4 bytes for 0 <= v < 2^7, 2^14, 2^21, 2^28 and 5      *)
(* bytes for every other 32-bit value; ltf8_put the smallest k in 1..8     *)
(* with 0 <= v < 2^(7k) and 9 bytes for every other 64-bit value.          *)
(***************************************************************************)
\* The number of significant bits of a word: 0 <= v < 2^n for n at least it.
SigBits(v) == IF IsZero(v) THEN 0 ELSE CHOOSE n \in 1..Len(v) :
                  v[n] = 1 /\ \A k \in (n+1)..Len(v) : v[k] = 0

\* The byte count the format asks for.
MinBytes(v) ==
    LET fits == {k \in 1..(IF Len(v) = W32 THEN 4 ELSE 8) : SigBits(v) <= 7 * k} IN
    IF fits = {} THEN (IF Len(v) = W32 THEN 5 ELSE 9)
    ELSE CHOOSE k \in fits : \A j \in fits : k <= j

C19_MinimalLength ==
    pc = "put" => Len(buf) = MinBytes(val)

\* 2^21 - 1, the largest value of three bytes, was put as a 64-bit value.
C19_Witness ==
    pc = "put" /\ val = LowMask(21, W64) /\ Len(buf) = 3

\* 2^56, the first 64-bit value that no longer fits eight bytes.
C19_WitnessNine ==
    pc = "put" /\ val = Shl(K64(1), 56) /\ Len(buf) = 9


(***************************************************************************)
(* Blocks in a session.  A writing session builds blocks (cram_new_block,  *)
(* BLOCK_APPEND), compresses and uncompresses them and writes them; the    *)
(* file is then opened for reading and its blocks are read back.  A        *)
(* reading session may also start on a file that came from elsewhere.      *)
(* hist holds the last two calls (at most), each with the block and the    *)
(* file offset it found; wlog holds the blocks written successfully, each  *)
(* with the payload bytes cram_write_block took from its buffer.           *)
(***************************************************************************)
Alphabet == {65, 67}

Payloads == UNION {[1..n -> Alphabet] : n \in 1..MaxLen}

ContentIds == {300}

\* What a read past the end of a buffer finds.
Pads == {0, 255}

\* Header fields of the blocks of files that came from elsewhere.
FileSizes == {0, 1, 200}

FileBlocks ==
    {[method |-> m, orig_method |-> m, content_type |-> EXTERNAL, content_id |-> 1,
      comp_size |-> cs, uncomp_size |-> us,
      data |-> [i \in 1..(IF (IF m = RAW THEN us ELSE cs) = 1 THEN 1 ELSE 0) |-> 65],
      byte |-> 0] : m \in {RAW, GZIP, BZIP2}, cs \in FileSizes, us \in FileSizes}

Prefixes(bs) == {SubSeq(bs, 1, k) : k \in 0..Len(bs)}

FileStreams == UNION {Prefixes(WireHeader(blk) \o blk.data) : blk \in FileBlocks}

Call(op, level, r) == [op |-> op, level |-> level, pre |-> b, pos |-> fd.pos, ret |-> r]

Push(h, call) == IF Len(h) = 0 THEN <<call>> ELSE <<h[Len(h)], call>>

Last(h) == h[Len(h)]

HasBlock == b # NoBlock

InitBlock ==
    /\ pc = "run"
    /\ \/ fd = [mode |-> "w", fp |-> <<>>, pos |-> 0, use_bz2 |-> 0, err |-> FALSE,
                nread |-> 0]
       \/ \E f \in FileStreams :
             fd = [mode |-> "r", fp |-> f, pos |-> 0, use_bz2 |-> 0, err |-> FALSE,
                   nread |-> 0]
    /\ b = NoBlock
    /\ metrics = cram_new_metrics
    /\ ret = 0 /\ hist = <<>> /\ wlog = <<>>
    /\ val = 0
    /\ buf = Idle /\ c = Idle

NewBlock ==
    /\ pc = "run"
    /\ fd.mode = "w" /\ b = NoBlock
    /\ \E id \in ContentIds : b' = cram_new_block(EXTERNAL, id)
    /\ hist' = <<>>
    /\ UNCHANGED <<pc, fd, c, metrics, val, buf, ret, wlog>>

BlockAppend ==
    /\ pc = "run" /\ HasBlock /\ fd.mode = "w"
    /\ b.method = RAW /\ b.byte = Len(b.data) /\ val = 0
    /\ \E bs \in Payloads :
          /\ b.byte + Len(bs) <= MaxLen
          /\ b' = block_append(b, bs)
    /\ hist' = <<>>
    /\ UNCHANGED <<pc, fd, c, metrics, val, buf, ret, wlog>>

\* val counts the calls of cram_compress_block.
CompressBlock ==
    /\ pc = "run" /\ HasBlock
    /\ \E level \in {0, 1}, strat2 \in {-1, Z_RLE}, mem \in BOOLEAN, pad \in Pads :
          LET r == cram_compress_block(fd.use_bz2, b, metrics, level, Z_FILTERED,
                                       strat2, mem, pad)
          IN  /\ val < MaxCompress
              /\ b' = r.b
              /\ metrics' = r.metrics
              /\ ret' = r.ret
              /\ val' = val + 1
              /\ hist' = Push(hist, Call("compress", level, r.ret))
    /\ UNCHANGED <<pc, fd, c, buf, wlog>>

UncompressBlock ==
    /\ pc = "run" /\ HasBlock
    /\ \E pad \in Pads :
          LET r == cram_uncompress_block(b, pad)
          IN  /\ b' = r.b
              /\ ret' = r.ret
              /\ pc' = IF r.abort THEN "aborted" ELSE pc
              /\ hist' = Push(hist, Call("uncompress", 0, r.ret))
    /\ UNCHANGED <<fd, c, metrics, val, buf, wlog>>

\* cram_write_block: the assertion, then the writes.  A session that saw a
\* write fail writes no more.
WriteBlock ==
    /\ pc = "run" /\ HasBlock
    /\ fd.mode = "w" /\ ~fd.err /\ Len(wlog) < MaxWrites
    /\ IF ~WriteAssert(b)
       THEN /\ pc' = "aborted"
            /\ hist' = Push(hist, Call("write", 0, -1))
            /\ UNCHANGED <<fd, wlog, ret>>
       ELSE \E pad \in Pads : \E room \in 0..Len(WireBlock(b, pad)) :
              LET w == cram_write_block(fd.fp, b, room, pad)
              IN  /\ fd' = [fd EXCEPT !.fp = w.fp, !.err = (w.ret # 0)]
                  /\ ret' = w.ret
                  /\ wlog' = IF w.ret = 0
                             THEN Append(wlog, [b |-> b,
                                    payload |-> Bytes(b.data, WireSize(b), pad)])
                             ELSE wlog
                  /\ hist' = Push(hist, Call("write", 0, w.ret))
                  /\ pc' = pc
    /\ UNCHANGED <<b, c, metrics, val, buf>>

\* The file is closed and opened again for reading (the file definition and
\* the SAM header that cram_open reads first are left out).
Reopen ==
    /\ pc = "run"
    /\ fd.mode = "w"
    /\ fd' = [fd EXCEPT !.mode = "r", !.pos = 0, !.err = FALSE, !.nread = 0]
    /\ b' = NoBlock
    /\ metrics' = cram_new_metrics
    /\ ret' = 0
    /\ hist' = <<>>
    /\ UNCHANGED <<pc, c, val, buf, wlog>>

\* cram_read_block; after a failure the position in the file is undefined
\* and the session reads no more.
ReadBlock ==
    /\ pc = "run"
    /\ fd.mode = "r" /\ ~fd.err
    /\ LET r == cram_read_block(fd.fp, fd.pos)
       IN  /\ b' = r.b
           /\ fd' = [fd EXCEPT !.pos = r.pos, !.err = (r.b = NoBlock),
                               !.nread = fd.nread + 1]
           /\ hist' = Push(hist, Call("read", 0, IF r.b = NoBlock THEN -1 ELSE 0))
    /\ UNCHANGED <<pc, c, metrics, val, buf, ret, wlog>>

NextBlock ==
    \/ NewBlock \/ BlockAppend \/ CompressBlock \/ UncompressBlock
    \/ WriteBlock \/ Reopen \/ ReadBlock

SpecBlock == InitBlock /\ [][NextBlock]_vars

\* The last two calls, when there were two.
Prev == hist[1]

Two == Len(hist) = 2

Called(op) == Len(hist) > 0 /\ Last(hist).op = op

CompressedFrom(call) ==
    /\ call.op = "compress" /\ call.level > 0 /\ call.ret = 0
    /\ call.pre.method = RAW /\ Len(call.pre.data) = call.pre.uncomp_size

C3_WitnessEmpty ==
    /\ Two /\ CompressedFrom(Prev) /\ Last(hist).op = "uncompress"
    /\ Prev.pre.data = <<>> /\ Last(hist).pre.method = GZIP /\ b.method = RAW

(***************************************************************************)
(* C4: in every state reached by cram_new_block, cram_read_block,          *)
(* cram_compress_block and cram_uncompress_block, a block whose method is  *)
(* RAW has comp_size = uncomp_size.                                        *)
(***************************************************************************)
C4_RawSizesEqual ==
    (HasBlock /\ b.method = RAW) => b.comp_size = b.uncomp_size

(***************************************************************************)
(* C5: cram_compress_block and cram_uncompress_block keep method, sizes    *)
(* and data in agreement: called on a block whose buffer holds comp_size   *)
(* compressed bytes (method GZIP) or uncomp_size uncompressed bytes        *)
(* (method RAW, both sizes equal), they leave a block whose buffer holds   *)
(* what its method and sizes say, with the same content; a level 0         *)
(* compress call on a compressed block included.                           *)
(***************************************************************************)
\* The buffer holds what method and sizes say.
DataAgree(blk) ==
    \/ blk.method = RAW /\ Len(blk.data) >= blk.uncomp_size
    \/ /\ blk.method = GZIP /\ Len(blk.data) = blk.comp_size
       /\ Len(blk.data) >= 3 /\ blk.data[1] = GZ_MAGIC
       /\ blk.data[Len(blk.data)] = blk.uncomp_size
       /\ Len(zlib_mem_inflate(blk.data)) = blk.uncomp_size

Agree(blk) ==
    DataAgree(blk) /\ (blk.method = RAW => blk.comp_size = blk.uncomp_size)

\* The uncompressed bytes a block stands for.
Content(blk) ==
    IF blk.method = RAW THEN SubSeq(blk.data, 1, blk.uncomp_size)
    ELSE zlib_mem_inflate(blk.data)

C5_MethodSizesDataAgree ==
    ((Called("compress") \/ Called("uncompress")) /\ Agree(Last(hist).pre)) =>
        (pc = "run" /\ DataAgree(b) /\ Content(b) = Content(Last(hist).pre))

(***************************************************************************)
(* C9: cram_read_block fails on every file that ends before the method     *)
(* byte, the content type byte, the three values content_id, comp_size and *)
(* uncomp_size and the whole payload have been read.                       *)
(***************************************************************************)
\* The number of bytes the first byte of an ITF8 value announces.
Itf8Len(first) ==
    IF first < 128 THEN 1 ELSE IF first < 192 THEN 2 ELSE IF first < 224 THEN 3
    ELSE IF first < 240 THEN 4 ELSE 5

\* The offset after the ITF8 value at pos, or -1 when the file ends in it.
Itf8End(fp, pos) ==
    IF pos < 0 \/ pos + 1 > Len(fp) THEN -1
    ELSE IF pos + Itf8Len(fp[pos + 1]) > Len(fp) THEN -1
    ELSE pos + Itf8Len(fp[pos + 1])

\* The file holds a whole block at pos.
CompleteBlockAt(fp, pos) ==
    LET e1 == Itf8End(fp, pos + 2)
        e2 == Itf8End(fp, e1)
        e3 == Itf8End(fp, e2)
    IN  /\ pos + 2 <= Len(fp)
        /\ e1 # -1 /\ e2 # -1 /\ e3 # -1
        /\ LET cs == W2I(itf8_get(SubSeq(fp, e1 + 1, e2)).val)
               us == W2I(itf8_get(SubSeq(fp, e2 + 1, e3)).val)
               n  == IF fp[pos + 1] = RAW THEN us ELSE cs
           IN  n >= 0 /\ e3 + n <= Len(fp)

C9_TruncatedBlockFails ==
    (Called("read") /\ ~CompleteBlockAt(fd.fp, Last(hist).pos)) => ~HasBlock

(***************************************************************************)
(* C20: cram_uncompress_block on a block whose method is RAW changes none  *)
(* of the block's fields; in particular a second call on a block that was  *)
(* gzip-compressed leaves uncomp_size and data as the first call left      *)
(* them.                                                                   *)
(***************************************************************************)
C20_UncompressRawNoop ==
    (Called("uncompress") /\ Last(hist).pre # NoBlock /\ Last(hist).pre.method = RAW) =>
        b = Last(hist).pre

(***************************************************************************)
(* Container headers.  A container is a record of the fields the header    *)
(* functions use; num_bases is a 64-bit word, the other fields are         *)
(* int32_t.                                                                *)
(***************************************************************************)
CRAM_1_VERS == 100

\* The four bytes of le_int4(v) in file order, and the value of four bytes.
le_int4(v) == <<ShrByte(v, 0), ShrByte(v, 8), ShrByte(v, 16), ShrByte(v, 24)>>

int32_value(cp) ==
    Or(Or(Up(cp, 0, 0, W32), Up(cp, 1, 8, W32)),
       Or(Up(cp, 2, 16, W32), Up(cp, 3, 24, W32)))

\* int32_decode: [ret, val, pos]
int32_decode(fp, pos) ==
    IF pos + 4 > Len(fp) THEN [ret |-> -1, val |-> <<>>, pos |-> Len(fp)]
    ELSE [ret |-> 4, val |-> int32_value(SubSeq(fp, pos + 1, pos + 4)), pos |-> pos + 4]

\* The container pointer NULL.
NoContainer ==
    [length |-> 0, ref_seq_id |-> 0, ref_seq_start |-> 0, ref_seq_span |-> 0,
     num_records |-> 0, record_counter |-> 0, num_bases |-> K64(0),
     num_blocks |-> 0, num_landmarks |-> -1, landmark |-> <<>>,
     multi_seq |-> 0, curr_ref |-> 0, curr_slice |-> 0, max_slice |-> 0,
     comp_hdr_block |-> NoBlock, slices |-> <<>>]

\* cram_new_container(nrec, nslice): calloc, then the fields it sets.
cram_new_container(nslice) ==
    [length |-> 0, ref_seq_id |-> 0, ref_seq_start |-> 0, ref_seq_span |-> 0,
     num_records |-> 0, record_counter |-> 0, num_bases |-> K64(0),
     num_blocks |-> 0, num_landmarks |-> 0, landmark |-> <<>>,
     multi_seq |-> 0, curr_ref |-> -2, curr_slice |-> 0, max_slice |-> nslice,
     comp_hdr_block |-> NoBlock, slices |-> <<>>]

\* The landmarks cram_write_container stores: landmark[i] for
\* i < num_landmarks.
RECURSIVE PutLandmarks(_, _)
PutLandmarks(cc, i) ==
    IF i >= cc.num_landmarks THEN <<>>
    ELSE Itf8Of(cc.landmark[i + 1]) \o PutLandmarks(cc, i + 1)

\* The bytes cram_write_container builds in buf for a session of the given
\* version.
ContainerBytes(version, cc) ==
    (IF version = CRAM_1_VERS THEN Itf8Of(cc.length) ELSE le_int4(I2W(cc.length)))
    \o (IF cc.multi_seq # 0
        THEN Itf8Of(-2) \o Itf8Of(0) \o Itf8Of(0)
        ELSE Itf8Of(cc.ref_seq_id) \o Itf8Of(cc.ref_seq_start)
               \o Itf8Of(cc.ref_seq_span))
    \o Itf8Of(cc.num_records)
    \o (IF version # CRAM_1_VERS
        THEN Itf8Of(cc.record_counter) \o ltf8_put(cc.num_bases)
        ELSE <<>>)
    \o Itf8Of(cc.num_blocks)
    \o Itf8Of(cc.num_landmarks)
    \o PutLandmarks(cc, 0)

\* cram_write_container: one fwrite of the buffer: [fp, ret]
cram_write_container(fp, version, cc, room) ==
    CHOOSE y \in {[fp |-> fwrite(fp, bs, room).fp,
                   ret |-> IF fwrite(fp, bs, room).n = Len(bs) THEN 0 ELSE -1] :
                    bs \in {ContainerBytes(version, cc)}} : TRUE

\* The landmarks cram_read_container decodes: [ok, pos, landmark]
RECURSIVE GetLandmarks(_, _, _)
GetLandmarks(fp, pos, n) ==
    IF n <= 0 THEN [ok |-> TRUE, pos |-> pos, landmark |-> <<>>]
    ELSE CHOOSE y \in
           {IF d.ret = -1 THEN [ok |-> FALSE, pos |-> d.pos, landmark |-> <<>>]
            ELSE CHOOSE z \in
                   {[ok |-> r.ok, pos |-> r.pos,
                     landmark |-> <<W2I(d.val)>> \o r.landmark] :
                      r \in {GetLandmarks(fp, d.pos, n - 1)}} : TRUE :
              d \in {itf8_decode(fp, pos)}} : TRUE

\* The values cram_read_container decodes before the landmarks, in order:
\* length, ref_seq_id, ref_seq_start, ref_seq_span, num_records, then
\* record_counter and num_bases in the versions that have them, then
\* num_blocks and num_landmarks.
HeaderFields(version) ==
    IF version = CRAM_1_VERS
    THEN <<"itf8", "itf8", "itf8", "itf8", "itf8", "itf8", "itf8">>
    ELSE <<"int32", "itf8", "itf8", "itf8", "itf8", "itf8", "ltf8", "itf8", "itf8">>

\* The decoding calls in order, up to the first that fails: [pos, vals]
\* with the values decoded (fewer than asked when one failed).
RECURSIVE DecodeFields(_, _, _, _)
DecodeFields(fp, pos, kinds, k) ==
    IF k > Len(kinds) THEN [pos |-> pos, vals |-> <<>>]
    ELSE CHOOSE y \in
           {IF d.ret = -1 THEN [pos |-> d.pos, vals |-> <<>>]
            ELSE CHOOSE z \in
                   {[pos |-> r.pos, vals |-> <<d.val>> \o r.vals] :
                      r \in {DecodeFields(fp, d.pos, kinds, k + 1)}} : TRUE :
              d \in {IF kinds[k] = "int32" THEN int32_decode(fp, pos)
                     ELSE IF kinds[k] = "ltf8" THEN ltf8_decode(fp, pos)
                     ELSE itf8_decode(fp, pos)}} : TRUE

\* The container cram_read_container returns for the values it decoded.
ContainerOf(version, v, lm) ==
    LET legacy == version = CRAM_1_VERS
        nl == W2I(v[Len(v)])
    IN  [length |-> W2I(v[1]), ref_seq_id |-> W2I(v[2]),
         ref_seq_start |-> W2I(v[3]), ref_seq_span |-> W2I(v[4]),
         num_records |-> W2I(v[5]),
         record_counter |-> IF legacy THEN 0 ELSE W2I(v[6]),
         num_bases |-> IF legacy THEN K64(0) ELSE v[7],
         num_blocks |-> W2I(v[Len(v) - 1]),
         num_landmarks |-> nl, landmark |-> lm,
         multi_seq |-> IF W2I(v[2]) = -2 THEN 1 ELSE 0,
         curr_ref |-> 0, curr_slice |-> 0, max_slice |-> nl,
         comp_hdr_block |-> NoBlock, slices |-> <<>>]

\* cram_read_container with the fields of the legacy version looked for in
\* every file.
cram_read_container_legacy(fp, pos, version, eof, multi_seq) ==
    LET kinds == HeaderFields(CRAM_1_VERS)
        fail(e, er) == [c |-> NoContainer, pos |-> Len(fp), eof |-> e, err |-> er,
                        multi_seq |-> multi_seq]
    IN  CHOOSE y \in
          {IF Len(r.vals) = 0 THEN fail(1, 0)
           ELSE IF Len(r.vals) < Len(kinds) THEN fail(eof, 0)
           ELSE IF W2I(r.vals[Len(kinds)]) < 0 THEN fail(eof, 12)
           ELSE CHOOSE z \in
                  {IF ~lm.ok THEN fail(eof, 0)
                   ELSE [c |-> ContainerOf(CRAM_1_VERS, r.vals, lm.landmark),
                         pos |-> lm.pos, eof |-> eof, err |-> 0,
                         multi_seq |-> IF W2I(r.vals[2]) = -2 THEN 1 ELSE multi_seq] :
                     lm \in {GetLandmarks(fp, r.pos, W2I(r.vals[Len(kinds)]))}} : TRUE :
             r \in {DecodeFields(fp, pos, kinds, 1)}} : TRUE

\* cram_read_container(fd): [c, pos, eof, err, multi_seq] with the session's
\* eof, err and multi_seq after the call.  eof is set when the length
\* cannot be decoded; err is cleared first and set (ENOMEM) when the
\* landmark array cannot be allocated, which is what a negative
\* num_landmarks leads to; multi_seq is set by a ref_seq_id of -2.
cram_read_container(fp, pos, version, eof, multi_seq) ==
    LET kinds == HeaderFields(version)
        fail(e, er) == [c |-> NoContainer, pos |-> Len(fp), eof |-> e, err |-> er,
                        multi_seq |-> multi_seq]
    IN  CHOOSE y \in
          {IF Len(r.vals) = 0 THEN fail(1, 0)
           ELSE IF Len(r.vals) < Len(kinds) THEN fail(eof, 0)
           ELSE IF W2I(r.vals[Len(kinds)]) < 0 THEN fail(eof, 12)
           ELSE CHOOSE z \in
                  {IF ~lm.ok THEN fail(eof, 0)
                   ELSE [c |-> ContainerOf(version, r.vals, lm.landmark),
                         pos |-> lm.pos, eof |-> eof, err |-> 0,
                         multi_seq |-> IF W2I(r.vals[2]) = -2 THEN 1 ELSE multi_seq] :
                     lm \in {GetLandmarks(fp, r.pos, W2I(r.vals[Len(kinds)]))}} : TRUE :
             r \in {DecodeFields(fp, pos, kinds, 1)}} : TRUE

(***************************************************************************)
(* Container headers in a session.  A writing session (cram_open for       *)
(* writing, at the version CRAM_OPT_VERSION chose) makes containers, fills *)
(* them and writes their headers; the file is opened for reading and the   *)
(* headers are read back; a container that was read may be handed to a new *)
(* writing session.  CRAM_OPT_MULTI_SEQ_PER_SLICE may be set at any time.  *)
(* wlog holds the headers written successfully, hist the last call.        *)
(***************************************************************************)
Versions == {CRAM_1_VERS, 200}

Lengths == {0, 16909060}

RefIds == {-2, -1, 3}

Spans == {<<0, 0>>, <<70000, 1000>>}

\* record_counter and num_bases
Counters == {<<0, K64(7)>>, <<300, Or(Shl(K64(1), 40), K64(5))>>}

Landmarks == {<<>>, <<0>>, <<0, 300>>}

HasContainer == c # NoContainer

CCall(op, r) ==
    [op |-> op, ret |-> r, c |-> c, flag |-> fd.multi_seq, pos |-> fd.pos,
     len |-> Len(fd.fp)]

\* cram_open for writing, as far as containers are concerned.
OpenW(version) ==
    [mode |-> "w", fp |-> <<>>, pos |-> 0, version |-> version, multi_seq |-> 0,
     eof |-> 0, err |-> 0, nread |-> 0, failed |-> FALSE, handed |-> FALSE]

InitContainer ==
    /\ pc = "run"
    /\ \E v \in Versions : fd = OpenW(v)
    /\ c = NoContainer
    /\ ret = 0 /\ hist = <<>> /\ wlog = <<>>
    /\ b = Idle /\ metrics = Idle /\ val = Idle /\ buf = Idle

\* cram_set_voption(fd, CRAM_OPT_MULTI_SEQ_PER_SLICE, v)
SetMultiSeq ==
    /\ pc = "run"
    /\ \E v \in {0, 1} : fd' = [fd EXCEPT !.multi_seq = v]
    /\ hist' = <<>>
    /\ UNCHANGED <<pc, b, c, metrics, val, buf, ret, wlog>>

\* cram_new_container and the assignments that fill the header fields (as
\* cram_write_SAM_hdr does before it writes its container): the first
\* container of the session, or the next one once the last is written.
NewContainer ==
    /\ pc = "run" /\ fd.mode = "w"
    /\ ~fd.failed /\ Len(wlog) < MaxWrites
    /\ ~HasContainer \/ Called("write")
    /\ \E len \in Lengths, id \in RefIds, sp \in Spans, rc \in Counters,
          lm \in Landmarks :
          c' = [cram_new_container(1) EXCEPT
                  !.length = len, !.ref_seq_id = id, !.ref_seq_start = sp[1],
                  !.ref_seq_span = sp[2], !.num_records = 5,
                  !.record_counter = rc[1], !.num_bases = rc[2], !.num_blocks = 9,
                  !.num_landmarks = Len(lm), !.landmark = lm]
    /\ hist' = <<>>
    /\ UNCHANGED <<pc, fd, b, metrics, val, buf, ret, wlog>>

\* cram_write_container; the device takes all bytes, all but one, or none.
\* A session that saw a write fail writes no more.
WriteContainer ==
    /\ pc = "run" /\ fd.mode = "w" /\ HasContainer
    /\ ~fd.failed /\ Len(wlog) < MaxWrites
    /\ \E short \in {0, 1, Len(ContainerBytes(fd.version, c))} :
          LET room == Len(ContainerBytes(fd.version, c)) - short
              w == cram_write_container(fd.fp, fd.version, c, room)
          IN  /\ fd' = [fd EXCEPT !.fp = w.fp, !.failed = (w.ret # 0)]
              /\ ret' = w.ret
              /\ wlog' = IF w.ret = 0 THEN Append(wlog, CCall("write", 0)) ELSE wlog
              /\ hist' = <<CCall("write", w.ret)>>
    /\ UNCHANGED <<pc, b, c, metrics, val, buf>>

\* The file is closed and opened again for reading: same version (from the
\* file definition), flags as cram_open sets them.
ReopenRead ==
    /\ pc = "run" /\ fd.mode = "w"
    /\ fd' = [fd EXCEPT !.mode = "r", !.pos = 0, !.multi_seq = 0, !.failed = FALSE]
    /\ c' = NoContainer
    /\ ret' = 0
    /\ hist' = <<>>
    /\ UNCHANGED <<pc, b, metrics, val, buf, wlog>>

\* cram_read_container; a session whose read failed reads no more.
ReadContainer ==
    /\ pc = "run" /\ fd.mode = "r" /\ ~fd.failed
    /\ LET r == cram_read_container(fd.fp, fd.pos, fd.version, fd.eof, fd.multi_seq)
       IN  /\ c' = r.c
           /\ fd' = [fd EXCEPT !.pos = r.pos, !.eof = r.eof, !.err = r.err,
                               !.multi_seq = r.multi_seq, !.nread = fd.nread + 1,
                               !.failed = (r.c = NoContainer)]
           /\ hist' = <<CCall("read", IF r.c = NoContainer THEN -1 ELSE 0)>>
    /\ UNCHANGED <<pc, b, metrics, val, buf, ret, wlog>>

\* A new writing session of the same version is opened and the container
\* that was read goes to it (once).
OpenWrite ==
    /\ pc = "run" /\ fd.mode = "r" /\ HasContainer /\ ~fd.handed
    /\ fd' = [OpenW(fd.version) EXCEPT !.handed = TRUE]
    /\ wlog' = <<>>
    /\ ret' = 0
    /\ hist' = <<>>
    /\ UNCHANGED <<pc, b, c, metrics, val, buf>>

NextContainer ==
    \/ SetMultiSeq \/ NewContainer \/ WriteContainer
    \/ ReopenRead \/ ReadContainer \/ OpenWrite

SpecContainer == InitContainer /\ [][NextContainer]_vars

EmittedRef(version, bytes) ==
    LET off == IF version = CRAM_1_VERS THEN itf8_get(Padded(bytes, 0)).n ELSE 4
        g1  == itf8_get(Padded(SubSeq(bytes, off + 1, Len(bytes)), 0))
        g2  == itf8_get(Padded(SubSeq(bytes, off + g1.n + 1, Len(bytes)), 0))
        g3  == itf8_get(Padded(SubSeq(bytes, off + g1.n + g2.n + 1, Len(bytes)), 0))
    IN  <<W2I(g1.val), W2I(g2.val), W2I(g3.val)>>

Emitted == SubSeq(fd.fp, Last(hist).len + 1, Len(fd.fp))

C7_MultiSeqForcesSentinel ==
    (Called("write") /\ ret = 0 /\ (Last(hist).flag # 0 \/ c.multi_seq # 0)) =>
        EmittedRef(fd.version, Emitted) = <<-2, 0, 0>>

(***************************************************************************)
(* The flush of a container.  cram_encode_container is not part of the     *)
(* sources modelled here: it is a step that fails or fills in the          *)
(* compression header block and, for every slice, the header block and the *)
(* data blocks.  The file takes `room` more bytes before a write comes     *)
(* back short.  The state of a flush under way is [fp, room, log, ret,     *)
(* abort]: log lists the writes issued, in order, each with its outcome.   *)
(***************************************************************************)
MaxSlices == 2

MaxBlocks == 2

MaxRoom == 54

\* One more write, of the container header (blk = NoBlock) or of a block,
\* unless a write has failed.
FlushWrite(st, version, cc, blk, pad) ==
    IF st.ret # 0 \/ st.abort THEN st
    ELSE IF blk # NoBlock /\ ~WriteAssert(blk) THEN [st EXCEPT !.abort = TRUE]
    ELSE CHOOSE y \in
           {[st EXCEPT !.fp = w.fp, !.room = st.room - (Len(w.fp) - Len(st.fp)),
                       !.ret = w.ret,
                       !.log = Append(st.log,
                                 [kind |-> IF blk = NoBlock THEN "container" ELSE "block",
                                  ct |-> blk.content_type,
                                  id |-> IF blk = NoBlock THEN -1 ELSE blk.content_id,
                                  ret |-> w.ret])] :
              w \in {IF blk = NoBlock
                     THEN cram_write_container(st.fp, version, cc, st.room)
                     ELSE cram_write_block(st.fp, blk, st.room, pad)}} : TRUE

\* The blocks of slice sl from block j on, in the order of the inner loop.
RECURSIVE SliceBlocks(_, _)
SliceBlocks(sl, j) ==
    IF j >= sl.hdr.num_blocks THEN <<>>
    ELSE <<sl.block[j + 1]>> \o SliceBlocks(sl, j + 1)

\* The blocks of the slices from slice i on, in the order of the outer loop.
RECURSIVE SlicesBlocks(_, _)
SlicesBlocks(cc, i) ==
    IF i >= cc.curr_slice THEN <<>>
    ELSE <<cc.slices[i + 1].hdr_block>> \o SliceBlocks(cc.slices[i + 1], 0)
           \o SlicesBlocks(cc, i + 1)

\* The writes of items k.. of a list, each made unless one before it failed.
RECURSIVE FlushWrites(_, _, _, _, _)
FlushWrites(st, version, cc, items, k) ==
    IF k > Len(items) THEN st
    ELSE CHOOSE y \in {FlushWrites(s1, version, cc, items, k + 1) :
                         s1 \in {FlushWrite(st, version, cc, items[k], 0)}} : TRUE

\* What a flush returns after its writes.
FlushReturn(st, flushed) ==
    IF st.ret # 0 \/ st.abort THEN [st EXCEPT !.ret = -1]
    ELSE [st EXCEPT !.ret = IF flushed THEN 0 ELSE -1]

\* cram_flush_container with the container header written after the
\* compression header block.
cram_flush_container_hdrfirst(fp, version, cc, enc, room, flushed) ==
    IF enc # 0 THEN [fp |-> fp, room |-> room, log |-> <<>>, ret |-> -1, abort |-> FALSE]
    ELSE FlushReturn(
           FlushWrites([fp |-> fp, room |-> room, log |-> <<>>, ret |-> 0, abort |-> FALSE],
                       version, cc,
                       <<cc.comp_hdr_block, NoBlock>> \o SlicesBlocks(cc, 0), 1),
           flushed)

\* cram_flush_container: enc is what cram_encode_container returned (cc is
\* the container as it left it), flushed tells whether fflush succeeds.
\* The writes are those of the container header, of the compression header
\* block and of the two loops, each checked before the next.
cram_flush_container(fp, version, cc, enc, room, flushed) ==
    IF enc # 0 THEN [fp |-> fp, room |-> room, log |-> <<>>, ret |-> -1, abort |-> FALSE]
    ELSE FlushReturn(
           FlushWrites([fp |-> fp, room |-> room, log |-> <<>>, ret |-> 0, abort |-> FALSE],
                       version, cc,
                       <<NoBlock, cc.comp_hdr_block>> \o SlicesBlocks(cc, 0), 1),
           flushed)

\* A block as the encoder leaves it: one byte of payload.
EncodedBlock(ct, id) == block_append(cram_new_block(ct, id), <<65>>)

\* The container as the encoder leaves it when it succeeds, slice i with
\* nb[i] data blocks.
Encoded(cc, nb) ==
    [cc EXCEPT
       !.comp_hdr_block = EncodedBlock(COMPRESSION_HEADER, 0),
       !.slices = [i \in 1..cc.curr_slice |->
                     [hdr_block |-> EncodedBlock(MAPPED_SLICE, i),
                      hdr |-> [num_blocks |-> nb[i]],
                      block |-> [j \in 1..nb[i] |-> EncodedBlock(EXTERNAL, 10 * i + j)]]]]

InitFlush ==
    /\ pc = "run"
    /\ \E v \in Versions : fd = OpenW(v)
    /\ c = cram_new_container(MaxSlices)
    /\ ret = 0 /\ hist = <<>> /\ wlog = <<>>
    /\ val = 0
    /\ b = Idle /\ metrics = Idle /\ buf = Idle

\* A slice of the container is complete: curr_slice++ (as cram_flush and
\* cram_close do for the slice under way).
NextSlice ==
    /\ pc = "run"
    /\ c.curr_slice < c.max_slice
    /\ c' = [c EXCEPT !.curr_slice = c.curr_slice + 1]
    /\ UNCHANGED <<pc, fd, b, metrics, val, buf, ret, hist, wlog>>

\* cram_flush_container, the encoder's step included.  val keeps what the
\* encoder returned, hist whether fflush succeeded.
FlushContainer ==
    /\ pc = "run"
    /\ \E enc \in {0, -1}, flushed \in BOOLEAN,
          nb \in [1..c.curr_slice -> 0..MaxBlocks] :
          \E room \in 0..MaxRoom :
          \E cc \in {IF enc = 0 THEN Encoded(c, nb) ELSE c} :
          \E r \in {cram_flush_container(fd.fp, fd.version, cc, enc, room, flushed)} :
                 /\ fd' = [fd EXCEPT !.fp = r.fp]
                 /\ c' = cc
                 /\ ret' = r.ret
                 /\ wlog' = r.log
                 /\ val' = enc
                 /\ hist' = <<[op |-> "flush", flushed |-> flushed]>>
                 /\ pc' = IF r.abort THEN "aborted" ELSE "flushed"
    /\ UNCHANGED <<b, metrics, buf>>

NextFlush == NextSlice \/ FlushContainer

SpecFlush == InitFlush /\ [][NextFlush]_vars

(***************************************************************************)
(* C8: cram_flush_container issues its writes in this order: the container *)
(* header, the compression header block, then for each slice below         *)
(* curr_slice, in index order, the slice's header block followed by its    *)
(* data blocks 0..num_blocks-1 in order.  When the encoder fails nothing   *)
(* is written; after the first write that fails no write is issued and the *)
(* call returns -1.                                                        *)
(***************************************************************************)
\* The number of writes up to and including those of the slices before i.
RECURSIVE WritesBefore(_, _)
WritesBefore(cc, i) ==
    IF i = 0 THEN 2
    ELSE WritesBefore(cc, i - 1) + 1 + cc.slices[i].hdr.num_blocks

\* What the k-th write of a flush is to be.
ExpectedWrite(cc, k) ==
    IF k = 1 THEN [kind |-> "container", ct |-> -1, id |-> -1]
    ELSE IF k = 2 THEN [kind |-> "block", ct |-> COMPRESSION_HEADER, id |-> 0]
    ELSE LET i == CHOOSE n \in 1..cc.curr_slice :
                     WritesBefore(cc, n - 1) < k /\ k <= WritesBefore(cc, n)
             j == k - WritesBefore(cc, i - 1) - 1
         IN  IF j = 0 THEN [kind |-> "block", ct |-> MAPPED_SLICE, id |-> i]
             ELSE [kind |-> "block", ct |-> EXTERNAL, id |-> 10 * i + j]

C8_FlushOrder ==
    pc # "run" =>
        /\ pc = "flushed"
        /\ val = 0 => Len(wlog) <= WritesBefore(c, c.curr_slice)
        /\ \A k \in 1..Len(wlog) :
              /\ wlog[k].kind = ExpectedWrite(c, k).kind
              /\ wlog[k].ct = ExpectedWrite(c, k).ct
              /\ wlog[k].id = ExpectedWrite(c, k).id
              /\ k < Len(wlog) => wlog[k].ret = 0
        /\ val # 0 => (wlog = <<>> /\ fd.fp = <<>> /\ ret = -1)
        /\ (Len(wlog) > 0 /\ Last(wlog).ret # 0) => ret = -1
        /\ (val = 0 /\ (Len(wlog) = 0 \/ Last(wlog).ret = 0)) =>
              /\ Len(wlog) = WritesBefore(c, c.curr_slice)
              /\ ret = (IF hist[1].flushed THEN 0 ELSE -1)

\* Two slices, of two and of one data blocks, were flushed without failure.
C8_Witness ==
    /\ pc = "flushed" /\ ret = 0 /\ val = 0 /\ c.curr_slice = 2
    /\ c.slices[1].hdr.num_blocks = 2 /\ c.slices[2].hdr.num_blocks = 1
    /\ Len(wlog) = 7 /\ wlog[6].id = 2 /\ wlog[7].id = 21

\* A flush stopped at the header block of the second slice.
C8_WitnessFailure ==
    /\ pc = "flushed" /\ ret = -1 /\ val = 0 /\ c.curr_slice = 2
    /\ c.slices[1].hdr.num_blocks = 1 /\ c.slices[2].hdr.num_blocks = 2
    /\ Len(wlog) = 5 /\ wlog[5].ret = -1 /\ wlog[5].ct = MAPPED_SLICE


(***************************************************************************)
(* The strategy metrics over a long run.  One cram_metrics object, made by *)
(* cram_new_metrics, is handed to every cram_compress_block call; each     *)
(* call compresses a fresh RAW block with candidate 1 = Z_RLE and          *)
(* candidate 2 = Z_FILTERED (or no second candidate).  val counts the      *)
(* calls that consult the metrics (level > 0 and a second candidate).      *)
(* buf tells whether every trial call so far produced both candidates with *)
(* the first more than 5% smaller than the second.  hist holds the latest  *)
(* call.                                                                   *)
(***************************************************************************)
MaxCalls == 310

\* Payloads by what Z_RLE (candidate 1) makes of them against a stored
\* stream (candidate 2): one run, 5 bytes against 11; no runs, 19 against
\* 11; runs of two, 11 against 11; 47 bytes in 23 runs, 49 against 50,
\* which is 98% to the byte.
RunPayloads ==
    {<<65, 65, 65, 65, 65, 65, 65, 65>>, <<65, 67, 65, 67, 65, 67, 65, 67>>,
     <<65, 65, 67, 67, 65, 65, 67, 67>>,
     [i \in 1..47 |-> IF i <= 22 THEN 65 + 2 * (i % 2) ELSE 71]}

\* strat2 >= 0 && (metrics->trial || --metrics->next_trial == 0)
IsTrial(m, level, strat2) ==
    level # 0 /\ strat2 >= 0 /\ (m.trial # 0 \/ m.next_trial = 1)

\* The runs of consecutive calls of one kind ("both": both candidates are
\* run, "single": one is) among the calls that consult the metrics: the
\* kind and length of the current run and of the run before it.
NoRuns == [run |-> "none", n |-> 0, done |-> "none", donen |-> 0]

CountRun(runs, kind) ==
    IF kind = runs.run THEN [runs EXCEPT !.n = @ + 1]
    ELSE [run |-> kind, n |-> 1, done |-> runs.run, donen |-> runs.n]

InitMetrics ==
    /\ pc = "run"
    /\ fd = [mode |-> "w", use_bz2 |-> 0]
    /\ metrics = cram_new_metrics
    /\ b = NoBlock
    /\ val = 0
    /\ buf = TRUE
    /\ ret = 0
    /\ hist = <<>>
    /\ c = NoRuns
    /\ wlog = <<>>

\* One cram_compress_block call with the session's metrics, on a new block
\* or on the block of the call before when that one is compressed.  val
\* counts the calls that consult the metrics.
CompressCall ==
    /\ pc = "run" /\ val < MaxCalls
    /\ \E level \in {0, 1}, strat2 \in {-1, Z_FILTERED}, mem \in BOOLEAN :
       \E blk \in {block_append(cram_new_block(EXTERNAL, 0), bs) : bs \in RunPayloads}
                    \cup (IF b # NoBlock /\ b.method # RAW THEN {b} ELSE {}) :
       \E r \in {cram_compress_block(fd.use_bz2, blk, metrics, level, Z_RLE, strat2,
                                     mem, 0)} :
       \E two \in {level # 0 /\ strat2 >= 0 /\ blk.method = RAW} :
       \E trial \in {two /\ IsTrial(metrics, level, strat2)} :
          /\ b' = r.b
          /\ metrics' = r.metrics
          /\ ret' = r.ret
          /\ val' = IF two THEN val + 1 ELSE val
          /\ c' = IF two THEN CountRun(c, IF trial THEN "both" ELSE "single") ELSE c
          /\ buf' = (buf /\ (trial =>
                       (mem /\ 100 * Len(zlib_mem_deflate(blk.data, Z_RLE))
                                 < 95 * Len(zlib_mem_deflate(blk.data, strat2)))))
          /\ hist' = <<[op |-> "compress", level |-> level, strat2 |-> strat2,
                        trial |-> trial, two |-> two, ret |-> r.ret,
                        pre |-> metrics, blk |-> blk]>>
    /\ UNCHANGED <<pc, fd, wlog>>

NextMetrics == CompressCall

SpecMetrics == InitMetrics /\ [][NextMetrics]_vars

(***************************************************************************)
(* C17: if in every trial call candidate 1's compressed size is more than  *)
(* 5% smaller than candidate 2's, then every successful compressing call   *)
(* outside a trial episode runs candidate 1 (Z_RLE here) and not           *)
(* candidate 2, however long the run.                                      *)
(***************************************************************************)
C17_CandidateOneSelected ==
    (hist # <<>> /\ buf /\ hist[1].level # 0 /\ ~hist[1].trial /\ ret = 0) =>
        (b.method = GZIP /\ b.data[2] = Z_RLE)

\* A call past the 300th, outside a trial episode, with a second candidate.
C17_Witness ==
    /\ hist # <<>> /\ buf /\ val > 300
    /\ hist[1].two /\ ~hist[1].trial /\ ret = 0
    /\ b.data[2] = Z_RLE

\* C21: cram_compress_block with level > 0 on a block whose method is not
\* RAW returns 0 and leaves the block and the metrics as they were.
C21_NonRawNoop ==
    (hist # <<>> /\ hist[1].level > 0 /\ hist[1].blk.method # RAW)
    => (ret = 0 /\ b = hist[1].blk /\ metrics = hist[1].pre)

\* Such a call made between two trial episodes, with a second candidate.
C21_Witness ==
    /\ hist # <<>> /\ hist[1].level > 0 /\ hist[1].blk.method = GZIP
    /\ hist[1].strat2 >= 0 /\ metrics.trial = 0 /\ metrics.next_trial < 100
    /\ ret = 0 /\ b = hist[1].blk

\* The latest call was one with two candidates (strat2 >= 0, level > 0, a
\* RAW block) made while metrics->trial was above 0.
InTrial == hist # <<>> /\ hist[1].two /\ hist[1].pre.trial > 0

\* Exactly one of m1 and m2 is one more than before the call, the other
\* is as before.
OneWin ==
    \/ metrics.m1 = hist[1].pre.m1 + 1 /\ metrics.m2 = hist[1].pre.m2
    \/ metrics.m1 = hist[1].pre.m1 /\ metrics.m2 = hist[1].pre.m2 + 1

\* C22, as stated: while metrics->trial > 0 every call with two candidates
\* runs both, adds one to exactly one of m1 and m2, takes one off trial and
\* leaves next_trial as it was.
C22_TrialCall ==
    InTrial => (/\ hist[1].trial
                /\ OneWin
                /\ metrics.trial = hist[1].pre.trial - 1
                /\ metrics.next_trial = hist[1].pre.next_trial)

\* C22, amended: the same for every such call in which both candidates
\* were produced (the call returned 0); a call in which zlib_mem_deflate
\* returned NULL takes one off trial, counts no win and leaves next_trial.
C22_TrialCallProduced ==
    /\ (InTrial /\ ret = 0)
       => (/\ hist[1].trial
           /\ OneWin
           /\ metrics.trial = hist[1].pre.trial - 1
           /\ metrics.next_trial = hist[1].pre.next_trial)
    /\ (InTrial /\ ret # 0)
       => (/\ hist[1].trial
           /\ metrics.m1 = hist[1].pre.m1 /\ metrics.m2 = hist[1].pre.m2
           /\ metrics.trial = hist[1].pre.trial - 1
           /\ metrics.next_trial = hist[1].pre.next_trial)

\* A trial call of a later episode that counted a win for candidate 2.
C22_Witness ==
    /\ InTrial /\ ret = 0 /\ val > 102
    /\ hist[1].pre.trial = 1 /\ metrics.trial = 0
    /\ metrics.m2 = hist[1].pre.m2 + 1

\* C23: among the calls with two candidates on one metrics instance, every
\* run of calls that run both candidates is 2 calls long and every run of
\* calls that run a single candidate is 100 calls long.
C23_EpisodeShape ==
    /\ (c.done = "both" => c.donen = 2)
    /\ (c.done = "single" => c.donen = 100)

\* C24: no cram_compress_block call leaves m1 or m2 lower than it found it.
C24_WinsCumulative ==
    hist # <<>> => (metrics.m1 >= hist[1].pre.m1 /\ metrics.m2 >= hist[1].pre.m2)

\* The latest call was a trial call in which both candidates were produced.
TrialDone == hist # <<>> /\ hist[1].trial /\ ret = 0

\* The two candidates of the latest call.
Cand1 == zlib_mem_deflate(hist[1].blk.data, Z_RLE)

Cand2 == zlib_mem_deflate(hist[1].blk.data, hist[1].strat2)

\* m1 and m2 as the comparison of the latest call found them: 0 in the
\* call that starts an episode, else as before the call.
Wins1 == IF hist[1].pre.trial = 0 THEN 0 ELSE hist[1].pre.m1

Wins2 == IF hist[1].pre.trial = 0 THEN 0 ELSE hist[1].pre.m2

\* C25: in a trial call with candidate sizes s1 and s2, candidate 1 is
\* stored and m1 counted up exactly when s1 < 0.98 * s2 (100*s1 < 98*s2);
\* otherwise, for equal sizes too, candidate 2 is stored and m2 counted up.
C25_Hysteresis ==
    TrialDone =>
        IF 100 * Len(Cand1) < 98 * Len(Cand2)
        THEN /\ b.data = Cand1 /\ b.comp_size = Len(Cand1)
             /\ metrics.m1 = Wins1 + 1 /\ metrics.m2 = Wins2
        ELSE /\ b.data = Cand2 /\ b.comp_size = Len(Cand2)
             /\ metrics.m1 = Wins1 /\ metrics.m2 = Wins2 + 1

\* Candidate 1 at 98% of candidate 2 to the byte (49 against 50): 2 is kept.
C25_Witness ==
    /\ TrialDone /\ Len(Cand1) = 49 /\ Len(Cand2) = 50
    /\ b.data = Cand2 /\ metrics.m2 = Wins2 + 1

\* Equal sizes: candidate 2 is kept.
C25_WitnessEqual ==
    /\ TrialDone /\ Len(Cand1) = Len(Cand2)
    /\ b.data = Cand2 /\ metrics.m2 = Wins2 + 1

\* Candidate 1 below 98%: it is kept.
C25_WitnessFirst ==
    /\ TrialDone /\ Len(Cand1) = 5 /\ Len(Cand2) = 11
    /\ b.data = Cand1 /\ metrics.m1 = Wins1 + 1


(***************************************************************************)
(* The file definition and cram_open.  buf is the file on disk, fd the     *)
(* session handle (NoFd when cram_open returned NULL or the session was    *)
(* closed), val the pair of the static major_version and minor_version.    *)
(* A cram_file_def is 26 bytes: magic[4], major_version, minor_version,    *)
(* file_id[20].                                                            *)
(***************************************************************************)
CRAM_MAGIC == <<67, 82, 65, 77>>

NoDef == [magic |-> <<>>, major_version |-> -1, minor_version |-> -1, file_id |-> <<>>]

NoFd == [mode |-> "-", fp |-> <<>>, pos |-> 0, version |-> -1, file_def |-> NoDef,
         first_container |-> 0]

\* cram_read_file_def with the version test on the major number alone.
cram_read_file_def_major(fp, pos, mem) ==
    IF ~mem THEN [def |-> NoDef, pos |-> pos]
    ELSE IF Len(fp) - pos < 26 THEN [def |-> NoDef, pos |-> Len(fp)]
    ELSE IF SubSeq(fp, pos + 1, pos + 4) # CRAM_MAGIC THEN [def |-> NoDef, pos |-> pos + 26]
    ELSE IF ~(fp[pos + 5] = 1 \/ fp[pos + 5] = 2) THEN [def |-> NoDef, pos |-> pos + 26]
    ELSE [def |-> [magic |-> SubSeq(fp, pos + 1, pos + 4), major_version |-> fp[pos + 5],
                   minor_version |-> fp[pos + 6], file_id |-> SubSeq(fp, pos + 7, pos + 26)],
          pos |-> pos + 26]

\* cram_read_file_def: [def, pos]; def is NoDef for a NULL return.  mem
\* tells whether the malloc of the structure succeeds.
cram_read_file_def(fp, pos, mem) ==
    IF ~mem THEN [def |-> NoDef, pos |-> pos]
    ELSE IF Len(fp) - pos < 26 THEN [def |-> NoDef, pos |-> Len(fp)]
    ELSE IF SubSeq(fp, pos + 1, pos + 4) # CRAM_MAGIC THEN [def |-> NoDef, pos |-> pos + 26]
    ELSE IF /\ ~(fp[pos + 5] = 1 /\ fp[pos + 6] = 0)
            /\ ~(fp[pos + 5] = 1 /\ fp[pos + 6] = 1)
            /\ ~(fp[pos + 5] = 2 /\ fp[pos + 6] = 0)
         THEN [def |-> NoDef, pos |-> pos + 26]
    ELSE [def |-> [magic |-> SubSeq(fp, pos + 1, pos + 4), major_version |-> fp[pos + 5],
                   minor_version |-> fp[pos + 6], file_id |-> SubSeq(fp, pos + 7, pos + 26)],
          pos |-> pos + 26]

\* The 26 bytes of a definition, and cram_write_file_def.
DefBytes(def) == def.magic \o <<def.major_version, def.minor_version>> \o def.file_id

cram_write_file_def(fp, def, room) ==
    [fp |-> fwrite(fp, DefBytes(def), room).fp,
     ret |-> IF fwrite(fp, DefBytes(def), room).n = 26 THEN 0 ELSE -1]

\* strncpy(def.file_id, filename, 20) after the memset
FileId(name) == [i \in 1..20 |-> IF i <= Len(name) THEN name[i] ELSE 0]

\* cram_open(filename, "r"): [fd, ok].  exists: fopen succeeds; rest: the
\* steps after the definition (cram_read_SAM_hdr, strdup, refs_create,
\* refs_from_header) all succeed.
cram_open_r(file, exists, mem, rest) ==
    IF ~exists THEN [fd |-> NoFd, ok |-> FALSE]
    ELSE LET d == cram_read_file_def(file, 0, mem) IN
         IF d.def = NoDef THEN [fd |-> NoFd, ok |-> FALSE]
         ELSE IF ~rest THEN [fd |-> NoFd, ok |-> FALSE]
         ELSE [fd |-> [mode |-> "r", fp |-> file, pos |-> d.pos,
                       version |-> d.def.major_version * 100 + d.def.minor_version,
                       file_def |-> d.def, first_container |-> 26],
               ok |-> TRUE]

\* cram_open(filename, "w"): [fd, file, ok]; the file is truncated by fopen.
cram_open_w(name, versions, exists, room, rest) ==
    IF ~exists THEN [fd |-> NoFd, file |-> <<>>, ok |-> FALSE, opened |-> FALSE]
    ELSE LET def == [magic |-> CRAM_MAGIC, major_version |-> versions[1],
                     minor_version |-> versions[2], file_id |-> FileId(name)]
             w == cram_write_file_def(<<>>, def, room)
         IN  IF w.ret # 0 \/ ~rest
             THEN [fd |-> NoFd, file |-> w.fp, ok |-> FALSE, opened |-> TRUE]
             ELSE [fd |-> [mode |-> "w", fp |-> w.fp, pos |-> Len(w.fp),
                           version |-> versions[1] * 100 + versions[2],
                           file_def |-> NoDef, first_container |-> 0],
                   file |-> w.fp, ok |-> TRUE, opened |-> TRUE]

\* Files found on disk: definitions with a right or wrong magic and any
\* version pair, cut at any length or followed by more bytes.
Magics == {CRAM_MAGIC, <<67, 82, 65, 109>>, <<66, 65, 77, 1>>}

DefFiles ==
    UNION {Prefixes(m \o <<mj, mn>> \o FileId(<<97>>) \o <<0>>) :
             m \in Magics, mj \in 0..3, mn \in 0..2}

InitFileDef ==
    /\ pc = "closed"
    /\ buf \in DefFiles
    /\ fd = NoFd
    /\ val = <<2, 0>>
    /\ ret = 0
    /\ hist = <<>>
    /\ b = Idle /\ c = Idle /\ metrics = Idle /\ wlog = <<>>

CramOpenRead ==
    /\ pc = "closed"
    /\ \E exists \in BOOLEAN, mem \in BOOLEAN, rest \in BOOLEAN :
        \E r \in {cram_open_r(buf, exists, mem, rest)} :
          /\ fd' = r.fd
          /\ pc' = IF r.ok THEN "open" ELSE "closed"
          /\ ret' = IF r.ok THEN 0 ELSE -1
          /\ hist' = <<[op |-> "open_r"]>>
    /\ UNCHANGED <<b, c, metrics, val, buf, wlog>>

CramOpenWrite ==
    /\ pc = "closed"
    /\ \E exists \in BOOLEAN, room \in {0, 6, 26}, rest \in BOOLEAN :
        \E r \in {cram_open_w(<<97>>, val, exists, room, rest)} :
          /\ fd' = r.fd
          /\ buf' = IF r.opened THEN r.file ELSE buf
          /\ pc' = IF r.ok THEN "open" ELSE "closed"
          /\ ret' = IF r.ok THEN 0 ELSE -1
          /\ hist' = <<[op |-> "open_w"]>>
    /\ UNCHANGED <<b, c, metrics, val, wlog>>

\* cram_close of a session without a container: the file is closed.
CramClose ==
    /\ pc = "open"
    /\ fd' = NoFd
    /\ pc' = "closed"
    /\ ret' = 0
    /\ hist' = <<[op |-> "close"]>>
    /\ UNCHANGED <<b, c, metrics, val, buf, wlog>>

NextFileDef == CramOpenRead \/ CramOpenWrite \/ CramClose

SpecFileDef == InitFileDef /\ [][NextFileDef]_vars

(***************************************************************************)
(* C18: cram_open in read mode (through cram_read_file_def) succeeds only  *)
(* if all 26 bytes of the definition are present, the first four are       *)
(* "CRAM" and the version pair is (1,0), (1,1) or (2,0); every other file  *)
(* makes the open fail.                                                    *)
(***************************************************************************)
C18_FileDefAccepted ==
    (hist # <<>> /\ hist[1].op = "open_r" /\ pc = "open") =>
        /\ Len(buf) >= 26
        /\ SubSeq(buf, 1, 4) = CRAM_MAGIC
        /\ <<buf[5], buf[6]>> \in {<<1, 0>>, <<1, 1>>, <<2, 0>>}
        /\ fd.version = 100 * buf[5] + buf[6]

\* A version 1.1 file was opened.
C18_Witness ==
    hist # <<>> /\ hist[1].op = "open_r" /\ pc = "open" /\ fd.version = 101


(***************************************************************************)
(* Reference sequences.  A refs_t table holds one ref_entry per reference  *)
(* id and the currently open reference file (fn, fp).  A session holds its *)
(* cached window: ref (a pointer), ref_id, ref_start, ref_end, and         *)
(* ref_free, the buffer it owns.  Pointers are addresses into a heap, 0    *)
(* being NULL; a heap cell is [data, live], live turning FALSE at free(),  *)
(* so that a pointer kept to a freed buffer can be told from a valid one.  *)
(***************************************************************************)
\* The files on disk: "fa" is a FASTA file holding reference 0 (8 bases in
\* lines of 4), "md5" the bare bases of reference 1, "bad" a file shorter
\* than its index says (reference 2), "ur" the FASTA file of the @SQ UR tag
\* of reference 3, "cache" and "cache0" a complete and an empty REF_CACHE
\* file of reference 3.
RefDisk(fn) ==
    CASE fn = "fa"     -> <<62, 48, 10, 65, 67, 71, 84, 10, 71, 71, 67, 65, 10>>
      [] fn = "md5"    -> <<84, 84, 65, 71>>
      [] fn = "bad"    -> <<65, 67, 10, 71, 84, 10, 65>>
      [] fn = "ur"     -> <<62, 51, 10, 67, 67, 71, 65, 10>>
      [] fn = "cache"  -> <<67, 67, 71, 65>>
      [] fn = "lc"     -> <<62, 48, 10, 97, 99, 103, 116, 10, 71, 71, 99, 97, 10>>
      [] fn = "crlf"   -> <<62, 49, 13, 10, 65, 67, 71, 84, 13, 10, 71, 71, 13, 10>>
      [] OTHER         -> <<>>

\* A ref_entry as refs_load_fai builds it, and the entry refs_from_header
\* makes from an @SQ line (length 0: not populated yet).
FaiEntry(fn, length, offset, bases_per_line, line_length) ==
    [length |-> length, seq |-> 0, count |-> 0, fn |-> fn, offset |-> offset,
     bases_per_line |-> bases_per_line, line_length |-> line_length]

RefsInit ==
    [nref |-> 4, fn |-> "fa", fp |-> "open",
     ref_id |-> <<FaiEntry("fa", 8, 3, 4, 5), FaiEntry("md5", 4, 0, 0, 0),
                  FaiEntry("bad", 8, 0, 4, 5), FaiEntry("NULL", 0, 0, 0, 0)>>]

\* The session fields of cram_open that cram_get_ref uses.
SessionInit(shared_ref, unsorted) ==
    [ref_id |-> -2, ref |-> 0, ref_start |-> 0, ref_end |-> 0, ref_free |-> 0,
     shared_ref |-> shared_ref, unsorted |-> unsorted]

\* free(p) and malloc of a buffer holding data
Free(heap, p) == IF p = 0 THEN heap ELSE [heap EXCEPT ![p].live = FALSE]

Malloc(heap, data) == Append(heap, [data |-> data, live |-> TRUE])

\* The white-space strip: bytes from '!' to '~' are kept, with bit 0x20
\* cleared.
RECURSIVE Strip(_)
Strip(bs) ==
    IF bs = <<>> THEN <<>>
    ELSE (IF bs[1] >= 33 /\ bs[1] <= 126
          THEN <<IF (bs[1] \div 32) % 2 = 1 THEN bs[1] - 32 ELSE bs[1]>> ELSE <<>>)
         \o Strip(Tail(bs))

\* The environment of one cram_populate_ref call: hdr tells what the header
\* holds for the entry ("nosq": no @SQ line, "ok"), m5 whether the line has
\* an M5 tag, cache the state of REF_CACHE ("unset", "miss", "hit0": an
\* empty file, "hit"), path the result of the REF_PATH search, ur that of
\* the UR tag ("none", "nofai": refs_load_fai fails, "ok"), disk the step
\* of the disk cache population that fails, mem whether malloc succeeds,
\* ub the outcome of a read or write through an invalid pointer.
PopEnvs ==
    {pe \in [hdr : {"nosq", "ok"}, m5 : BOOLEAN,
             cache : {"unset", "miss", "hit0", "hit"},
             path : {"miss", "found"}, ur : {"none", "nofai", "ok"},
             disk : {"none", "fopen", "fwrite", "fclose", "chmod", "rename"},
             mem : BOOLEAN, ub : {"crash", "go"}] :
        \* a field the call does not get to look at is left at its first value
        /\ (pe.hdr = "nosq" => ~pe.m5)
        /\ (~pe.m5 => pe.cache = "unset" /\ pe.path = "miss")
        /\ (pe.cache \in {"hit0", "hit"} => pe.path = "miss")
        /\ (pe.path = "found" \/ pe.hdr = "nosq" \/ pe.cache \in {"hit0", "hit"}
              => pe.ur = "none")
        /\ (pe.path = "miss" \/ pe.cache = "unset" => pe.disk = "none")
        /\ (pe.hdr = "nosq" \/ (pe.path = "miss" /\ pe.cache \notin {"hit0", "hit"}
                                   /\ pe.ur # "ok") => pe.mem)
        /\ (pe.hdr = "nosq" \/ (pe.path = "found" /\ pe.mem) => pe.ub = "crash")}

\* The environment of a call that does not get to cram_populate_ref.
NoPop(mem, ub) ==
    [hdr |-> "nosq", m5 |-> FALSE, cache |-> "unset", path |-> "miss", ur |-> "none",
     disk |-> "none", mem |-> mem, ub |-> ub]

\* No file at the final REF_CACHE path.
NoFile == [exists |-> FALSE, data |-> <<>>]

\* What a call that does not get to cram_populate_ref tells of it: pop is
\* its return value (-2: not called), pope the entry as it left it, popf the
\* file it left at the final REF_CACHE path.
NotPopulated == [pop |-> -2, pope |-> FaiEntry("NULL", 0, 0, 0, 0), popf |-> NoFile]

\* The file at the final REF_CACHE path after the disk cache population of
\* the sequence data (there was none before: the cache was searched and
\* missed).  The temporary file is created; a short fwrite is reported
\* with perror and nothing else; a failed paranoid_fclose or chmod unlinks
\* the temporary file; else it is renamed, and the result of rename is not
\* looked at.
DiskCacheFile(pe, data) ==
    IF pe.cache = "unset" \/ pe.disk = "fopen" THEN NoFile
    ELSE IF pe.disk \in {"fclose", "chmod", "rename"} THEN NoFile
    ELSE [exists |-> TRUE,
          data |-> IF pe.disk = "fwrite" THEN SubSeq(data, 1, Len(data) - 1) ELSE data]

\* The population of the disk cache with a failed creation of the temporary
\* file reported as a failure.
PopulateDiskCache_fatal(pe) ==
    IF pe.cache = "unset" THEN 0
    ELSE IF pe.disk = "fopen" THEN -1
    ELSE 0

\* The population of the disk cache once the sequence is in memory: what
\* cram_populate_ref returns after it.  A failed fopen of the temporary file
\* returns 0 at once; a failed fwrite, fclose, chmod or rename is not looked
\* at beyond unlinking the temporary file.
PopulateDiskCache(pe) ==
    IF pe.cache = "unset" THEN 0
    ELSE IF pe.disk = "fopen" THEN 0
    ELSE 0

\* cram_populate_ref: [ret, refs, heap, crash, file].  crash: the call did not
\* return (mfread into the NULL result of an unchecked malloc, or the second
\* fclose of a stream that the UR branch closes before refs_load_fai closes
\* it again).  refs.fp is "open", "null" or "closed" (closed, the pointer
\* kept).
cram_populate_ref(refs, heap, id, pe) ==
    LET r == refs.ref_id[id + 1]
        fail == [ret |-> -1, refs |-> refs, heap |-> heap, crash |-> FALSE,
                 file |-> NoFile]
    IN  IF pe.hdr # "ok" THEN fail
        ELSE IF pe.m5 /\ pe.cache \in {"hit0", "hit"} THEN
            \* stat and fopen of the cache file succeed
            LET fn == IF pe.cache = "hit" THEN "cache" ELSE "cache0" IN
            [ret |-> 0, heap |-> heap, crash |-> (refs.fp = "closed" /\ pe.ub = "crash"),
             file |-> NoFile,
             refs |-> [refs EXCEPT !.fp = "open", !.fn = fn,
                         !.ref_id[id + 1] = [r EXCEPT !.length = Len(RefDisk(fn)),
                             !.offset = 0, !.line_length = 0, !.bases_per_line = 0,
                             !.fn = fn]]]
        ELSE IF pe.m5 /\ pe.path = "found" THEN
            \* open_path_mfile found it: length, malloc (unchecked), mfread;
            \* then the disk cache population, no step of which is fatal
            LET data == RefDisk("cache")
                h2 == IF pe.mem THEN Malloc(heap, data) ELSE heap
                r2 == [r EXCEPT !.length = Len(data),
                                !.seq = IF pe.mem THEN Len(h2) ELSE 0]
            IN  [ret |-> PopulateDiskCache(pe),
                 heap |-> h2, crash |-> ~pe.mem /\ pe.ub = "crash",
                 file |-> IF pe.mem THEN DiskCacheFile(pe, data) ELSE NoFile,
                 refs |-> [refs EXCEPT !.ref_id[id + 1] = r2]]
        \* no_M5: the UR tag
        ELSE IF pe.ur = "none" THEN fail
        \* fclose(fd->refs->fp); refs_load_fai fails at its stat
        ELSE IF pe.ur = "nofai"
        THEN [fail EXCEPT !.refs.fp = IF refs.fp = "null" THEN "null" ELSE "closed",
                          !.crash = (refs.fp = "closed" /\ pe.ub = "crash")]
        ELSE [ret |-> 0, heap |-> heap, crash |-> (refs.fp # "null" /\ pe.ub = "crash"),
              file |-> NoFile,
              refs |-> [refs EXCEPT !.fn = "ur", !.fp = "null",
                          !.ref_id[id + 1] = FaiEntry("ur", 4, 3, 4, 5)]]

\* cram_get_ref, the reference counting of shared mode: [refs, heap, crash,
\* oob].  The entry of the new id is read before id is checked, so for an id
\* that is negative or not below nref the read is outside the array (oob).
get_ref_count(s, refs, heap, id, ub) ==
    IF ~(s.ref_id # id /\ s.unsorted = 0 /\ s.shared_ref # 0)
    THEN [refs |-> refs, heap |-> heap, crash |-> FALSE, oob |-> FALSE]
    ELSE
      LET o  == s.ref_id + 1
          dec == s.ref_id >= 0 /\ refs.ref_id[o].seq # 0
          rel == dec /\ refs.ref_id[o].count - 1 <= 0
          r1 == IF ~dec THEN refs
                ELSE [refs EXCEPT !.ref_id[o].count = @ - 1,
                                  !.ref_id[o].seq = IF rel THEN 0 ELSE @]
          h1 == IF rel THEN Free(heap, refs.ref_id[o].seq) ELSE heap
      IN  IF id < 0 \/ id >= refs.nref
          THEN [refs |-> r1, heap |-> h1, crash |-> ub = "crash", oob |-> TRUE]
          ELSE [refs |-> IF r1.ref_id[id + 1].seq # 0
                         THEN [r1 EXCEPT !.ref_id[id + 1].count = @ + 1] ELSE r1,
                heap |-> h1, crash |-> FALSE, oob |-> FALSE]

\* A result of cram_get_ref: the session, the table and the heap after the
\* call, the pointer returned, whether a file was read, whether the call
\* ended the process.
GetRefResult(s, refs, heap, p, io, crash) ==
    [s |-> s, refs |-> refs, heap |-> heap, ret |-> p, io |-> io, crash |-> crash]

\* The place in its file of base x of the entry r, as the mutant has it:
\* whole lines counted at bases_per_line bytes each.
ref_at_bpl(r, x) ==
    IF r.line_length # 0
    THEN r.offset + ((x - 1) \div r.bases_per_line) * r.bases_per_line
                  + ((x - 1) % r.bases_per_line)
    ELSE x - 1

\* cram_get_ref: the place in its file of base x of the entry r.
ref_at(r, x) ==
    IF r.line_length # 0
    THEN r.offset + ((x - 1) \div r.bases_per_line) * r.line_length
                  + ((x - 1) % r.bases_per_line)
    ELSE x - 1

\* cram_get_ref from the range clamping on, for the entry r of a valid id.
\* env.io names the file operation that fails ("none", "fopen", "fseek").
get_ref_load(s, refs, heap, id, start0, end0, env) ==
    LET r     == refs.ref_id[id + 1]
        e1    == IF end0 < 1 \/ end0 >= r.length THEN r.length ELSE end0
        whole == 2 * (e1 - start0) >= r.length \/ s.shared_ref # 0
        start == IF whole THEN 1 ELSE start0
        end   == IF whole THEN r.length ELSE e1
        offset == ref_at(r, start)
        len    == ref_at(r, end) - offset + 1
        reopen == refs.fn # r.fn \/ refs.fp = "null"
        file   == RefDisk(r.fn)
        got    == IF offset >= Len(file) THEN <<>>
                  ELSE SubSeq(file, offset + 1, Min(offset + len, Len(file)))
        h1     == Free(heap, s.ref_free)
        data   == IF len # end - start + 1 THEN Strip(got) ELSE got
        h2     == Malloc(h1, data)
        new    == Len(h2)
        stash  == (s.unsorted # 0 /\ start = 1 /\ end = r.length) \/ s.shared_ref # 0
    IN  IF r.seq # 0 THEN
            GetRefResult([s EXCEPT !.ref_id = id, !.ref = r.seq, !.ref_start = 1,
                                   !.ref_end = r.length], refs, heap, r.seq, FALSE, FALSE)
        \* strcmp(fd->refs->fn, r->fn) with r->fn NULL
        ELSE IF r.fn = "NULL" THEN
            GetRefResult(s, refs, heap, 0, FALSE, TRUE)
        \* fclose of a stream closed before, or fseeko on it
        ELSE IF refs.fp = "closed" /\ env.pe.ub = "crash" THEN
            GetRefResult(s, refs, heap, 0, TRUE, TRUE)
        ELSE IF reopen /\ env.io = "fopen" THEN
            GetRefResult(s, [refs EXCEPT !.fn = r.fn, !.fp = "null"], heap, 0, TRUE, FALSE)
        ELSE IF env.io = "fseek" \/ (~reopen /\ refs.fp = "closed") THEN
            GetRefResult(s, [refs EXCEPT !.fn = r.fn,
                                         !.fp = IF reopen THEN "open" ELSE @],
                         heap, 0, TRUE, FALSE)
        ELSE
          LET rf == [refs EXCEPT !.fn = r.fn, !.fp = IF reopen THEN "open" ELSE @]
              s1 == [s EXCEPT !.ref_free = 0]
          IN  IF ~env.pe.mem THEN
                  GetRefResult([s1 EXCEPT !.ref = 0], rf, h1, 0, TRUE, FALSE)
              ELSE IF Len(got) # len \/ Len(data) # end - start + 1 THEN
                  GetRefResult([s1 EXCEPT !.ref = new], rf, h2, 0, TRUE, FALSE)
              ELSE
                  GetRefResult(
                      [s1 EXCEPT !.ref = new, !.ref_id = id, !.ref_start = start,
                                 !.ref_end = end, !.ref_free = IF stash THEN 0 ELSE new],
                      IF stash THEN [rf EXCEPT !.ref_id[id + 1].seq = new,
                                               !.ref_id[id + 1].count = 1] ELSE rf,
                      h2, new, TRUE, FALSE)

\* cram_get_ref after the reference counting: the unmapped id, the unknown
\* id, cram_populate_ref for an entry of length 0, then the load.  The
\* result also tells what cram_populate_ref returned (pop, -2 when it was
\* not called), the entry as it left it (pope) and the cache file (popf).
get_ref_entry(s, refs, heap, id, start, end, env) ==
    IF id < 0 THEN
        GetRefResult([s EXCEPT !.ref_free = 0, !.ref = 0, !.ref_id = id], refs,
                     Free(heap, s.ref_free), 0, FALSE, FALSE) @@ NotPopulated
    ELSE IF id >= refs.nref THEN
        GetRefResult(s, refs, heap, 0, FALSE, FALSE) @@ NotPopulated
    ELSE IF refs.ref_id[id + 1].length = 0 THEN
        CHOOSE y \in {(IF q.crash \/ q.ret = -1
                       THEN GetRefResult(s, q.refs, q.heap, 0, FALSE, q.crash)
                       ELSE get_ref_load(s, q.refs, q.heap, id, start, end, env))
                        @@ [pop |-> q.ret, pope |-> q.refs.ref_id[id + 1],
                            popf |-> q.file]
                      : q \in {cram_populate_ref(refs, heap, id, env.pe)}} : TRUE
    ELSE get_ref_load(s, refs, heap, id, start, end, env) @@ NotPopulated

\* cram_get_ref(fd, id, start, end)
cram_get_ref(s, refs, heap, id, start, end, env) ==
    IF id = s.ref_id /\ start >= s.ref_start /\ end <= s.ref_end
    THEN GetRefResult(s, refs, heap, s.ref, FALSE, FALSE)
           @@ NotPopulated @@ [oob |-> FALSE]
    ELSE CHOOSE y \in {(IF k.crash
                        THEN GetRefResult(s, k.refs, k.heap, 0, FALSE, TRUE)
                               @@ NotPopulated
                        ELSE get_ref_entry(s, k.refs, k.heap, id, start, end, env))
                         @@ [oob |-> k.oob]
                       : k \in {get_ref_count(s, refs, heap, id, env.pe.ub)}} : TRUE


(***************************************************************************)
(* Sessions asking for references.  fd holds the sessions (one, or two     *)
(* that share the table) and the refs_t table, buf the heap, val the       *)
(* number of cram_get_ref calls made, ret the pointer the latest call      *)
(* returned, hist the last two calls.                                      *)
(***************************************************************************)
MaxGets == 3

MaxSharedGets == 4

\* The bases of each reference (2 has no file that matches its index).
RefSeq(id) ==
    CASE id = 0 -> <<65, 67, 71, 84, 71, 71, 67, 65>>
      [] id = 1 -> <<84, 84, 65, 71>>
      [] id = 3 -> <<67, 67, 71, 65>>
      [] OTHER  -> <<>>

\* fd->ref points at a live buffer that holds the bases ref_start..ref_end
\* of reference ref_id.
WindowOk(s, heap) ==
    /\ s.ref # 0 /\ heap[s.ref].live
    /\ s.ref_id >= 0 /\ s.ref_start >= 1 /\ s.ref_start <= s.ref_end
    /\ s.ref_end <= Len(RefSeq(s.ref_id))
    /\ Len(heap[s.ref].data) >= s.ref_end - s.ref_start + 1
    /\ SubSeq(heap[s.ref].data, 1, s.ref_end - s.ref_start + 1)
         = SubSeq(RefSeq(s.ref_id), s.ref_start, s.ref_end)

\* The ranges asked for, as <<start, end>>; <<1, 0>> is the whole sequence.
\* Of reference 0 (8 bases): a quarter, exactly a half, more than a half.
\* Of reference 2: ranges whose read is short or does not strip to the
\* length asked for.
RefRanges(id) ==
    CASE id = 0 -> {<<1, 0>>, <<1, 2>>, <<1, 4>>, <<2, 6>>}
      [] id = 1 -> {<<1, 0>>, <<1, 2>>}
      [] id = 2 -> {<<1, 0>>, <<3, 6>>}
      [] OTHER  -> {<<1, 0>>}

\* The environments of a call: those of cram_populate_ref when the entry has
\* no length yet, else one failing file operation or allocation at most.
RefEnvs(populate, ubs) ==
    IF populate THEN {[io |-> "none", pe |-> pe] : pe \in PopEnvs}
    ELSE {[io |-> io, pe |-> NoPop(TRUE, ub)] : io \in {"none", "fopen", "fseek"}, ub \in ubs}
           \cup {[io |-> "none", pe |-> NoPop(FALSE, ub)] : ub \in ubs}

InitRef ==
    /\ pc = "run"
    /\ \E unsorted \in {0, 1} :
          fd = [s |-> <<SessionInit(0, unsorted)>>, refs |-> RefsInit]
    /\ buf = <<>>
    /\ val = 0
    /\ ret = 0
    /\ hist = <<>>
    /\ b = Idle /\ c = Idle /\ metrics = Idle /\ wlog = <<>>

\* Two sessions given the same table by CRAM_OPT_SHARED_REF.
InitShared ==
    /\ pc = "run"
    /\ fd = [s |-> <<SessionInit(1, 0), SessionInit(1, 0)>>, refs |-> RefsInit]
    /\ buf = <<>>
    /\ val = 0
    /\ ret = 0
    /\ hist = <<>>
    /\ b = Idle /\ c = Idle /\ metrics = Idle /\ wlog = <<>>

GetRef ==
    /\ pc = "run"
    /\ \E k \in 1..Len(fd.s) :
       \E id \in (IF fd.s[k].shared_ref # 0 THEN {-1, 0, 1, 4} ELSE -1..4) :
       \E rg \in (IF fd.s[k].shared_ref # 0 THEN {<<1, 0>>} ELSE RefRanges(id)) :
       \E env \in RefEnvs(id >= 0 /\ id < fd.refs.nref /\ fd.refs.ref_id[id + 1].length = 0,
                          IF fd.s[k].shared_ref # 0 \/ fd.refs.fp = "closed"
                          THEN {"crash", "go"} ELSE {"crash"}) :
       \E r \in {cram_get_ref(fd.s[k], fd.refs, buf, id, rg[1], rg[2], env)} :
          /\ val < (IF fd.s[k].shared_ref # 0 THEN MaxSharedGets ELSE MaxGets)
          /\ fd' = [s |-> [fd.s EXCEPT ![k] = r.s], refs |-> r.refs]
          /\ buf' = r.heap
          /\ ret' = r.ret
          /\ val' = val + 1
          /\ pc' = IF r.crash THEN "crashed" ELSE "run"
          /\ hist' = Push(hist, [k |-> k, id |-> id, start |-> rg[1], end |-> rg[2],
                                 fault |-> IF fd.refs.fp = "closed" THEN "stream"
                                           ELSE IF ~env.pe.mem THEN "malloc"
                                           ELSE env.io,
                                 pe |-> IF r.pop = -2 THEN NoPop(TRUE, "crash") ELSE env.pe,
                                 pre |-> fd.s[k], valid |-> WindowOk(fd.s[k], buf),
                                 ret |-> r.ret, read |-> r.io, pop |-> r.pop,
                                 pope |-> r.pope, popf |-> r.popf, oob |-> r.oob,
                                 crash |-> r.crash])
    /\ UNCHANGED <<b, c, metrics, wlog>>

SpecRef == InitRef /\ [][GetRef]_vars

SpecShared == InitShared /\ [][GetRef]_vars
\* The entry that call asks for has a length and a file behind it from the
\* start: reference 0 of the indexed FASTA file, reference 1 of its own file.
Resolvable(call) == call.id \in {0, 1}

\* Nothing fails in the environment of that call: no file operation, no
\* allocation, and the stream of the table is not one closed before.
Clean(call) == call.fault = "none"

\* The session of the latest call, after it.
Sess == fd.s[Last(hist).k]

\* The session holds the whole of reference id in memory.
WholeWindow(s, heap, id) ==
    /\ s.ref_id = id /\ s.ref_start = 1 /\ s.ref_end = Len(RefSeq(id))
    /\ WindowOk(s, heap)

\* C11: cram_get_ref(fd, id, 1, 0) on a resolvable id, with no operation
\* failing, returns the entire sequence and leaves the session window at
\* 1..length, whatever the session held before: nothing of that id, or a
\* valid window of it, a partial one included.
C11_WholeSequence ==
    (/\ hist # <<>>
     /\ Resolvable(Last(hist))
     /\ Last(hist).start = 1 /\ Last(hist).end = 0
     /\ Clean(Last(hist)) /\ ~Last(hist).crash
     /\ (Last(hist).valid \/ Last(hist).pre.ref_id # Last(hist).id))
    => (ret # 0 /\ WholeWindow(Sess, buf, Last(hist).id))

\* The span a call asks for, end clamped to the length of the entry.
Span(call) ==
    LET L == Len(RefSeq(call.id))
        e == IF call.end < 1 \/ call.end >= L THEN L ELSE call.end
    IN  e - call.start + 1

\* C12: a request whose span is at least half of the entry's length, made
\* when the session holds another id and with no operation failing, leaves
\* the session window at 1..length; and a request for that id made when
\* the session holds the whole of it is served without file I/O.
C12_HalfLoadsWhole ==
    /\ (/\ hist # <<>>
        /\ Resolvable(Last(hist))
        /\ Last(hist).pre.ref_id # Last(hist).id
        /\ Clean(Last(hist)) /\ ~Last(hist).crash
        /\ 2 * Span(Last(hist)) >= Len(RefSeq(Last(hist).id)))
       => (ret # 0 /\ WholeWindow(Sess, buf, Last(hist).id))
    /\ (/\ hist # <<>>
        /\ Resolvable(Last(hist))
        /\ Last(hist).valid
        /\ Last(hist).pre.ref_id = Last(hist).id
        /\ Last(hist).pre.ref_start = 1
        /\ Last(hist).pre.ref_end = Len(RefSeq(Last(hist).id)))
       => (ret # 0 /\ ~Last(hist).read /\ WholeWindow(Sess, buf, Last(hist).id))

\* The sessions whose current reference id is id.
SessionsAt(id) == {k \in 1..Len(fd.s) : fd.s[k].ref_id = id}

\* C13: in shared-reference mode an entry whose sequence is resident has a
\* refcount equal to the number of sessions whose current reference id is
\* that entry.
C13_RefcountMatchesSessions ==
    (pc = "run" /\ \A k \in 1..Len(fd.s) : fd.s[k].shared_ref # 0)
    => \A id \in 0..(fd.refs.nref - 1) :
          fd.refs.ref_id[id + 1].seq # 0
          => fd.refs.ref_id[id + 1].count = Cardinality(SessionsAt(id))

\* C14: after a cram_get_ref call that returned failure for an id of zero
\* or more (an id not in the table, a resolution, open, seek or read that
\* failed, a malformed file; not a failed allocation), made when the
\* session held a valid window, a request inside that
\* window, with no operation failing, returns the bases of the window's id:
\* the pointer is not NULL and the session's window is valid, of that id
\* and around the range asked for.
C14_FailureKeepsWindow ==
    (/\ Two
     /\ Prev.k = Last(hist).k
     /\ Prev.valid /\ Prev.id >= 0 /\ Prev.ret = 0 /\ ~Prev.crash
     /\ Prev.fault \in {"none", "fopen", "fseek"}
     /\ Last(hist).id = Prev.pre.ref_id
     /\ Last(hist).start >= Prev.pre.ref_start
     /\ Last(hist).end >= Last(hist).start
     /\ Last(hist).end <= Prev.pre.ref_end
     /\ Clean(Last(hist)) /\ ~Last(hist).crash)
    => (/\ ret # 0
        /\ WindowOk(Sess, buf)
        /\ Sess.ref_id = Last(hist).id
        /\ Sess.ref_start <= Last(hist).start
        /\ Last(hist).end <= Sess.ref_end)

\* The latest call went through cram_populate_ref.
Populated == hist # <<>> /\ Last(hist).pop # -2

\* None of the three resolutions yields the sequence: no @SQ line, or no
\* file in REF_CACHE, none on REF_PATH and no indexed file behind UR.
NoneYields(pe) ==
    \/ pe.hdr = "nosq"
    \/ (pe.cache \notin {"hit0", "hit"} /\ pe.path = "miss" /\ pe.ur # "ok")

\* C15: for an entry of unknown length cram_get_ref returns NULL when none
\* of the three resolutions yields the sequence; and when cram_populate_ref
\* returns 0 the entry has a length other than 0 and a resident sequence or
\* a file name to read from.
C15_PopulateResolves ==
    /\ (Populated /\ ~Last(hist).crash /\ NoneYields(Last(hist).pe)) => ret = 0
    /\ (Populated /\ ~Last(hist).crash /\ Last(hist).pop = 0)
       => (/\ Last(hist).pope.length # 0
           /\ (Last(hist).pope.seq # 0 \/ Last(hist).pope.fn # "NULL"))

\* C16: when the REF_PATH search has found the sequence and put it in
\* memory, cram_populate_ref returns 0 and cram_get_ref returns the
\* sequence, whichever step of the disk cache population fails.
C16_DiskCacheNotFatal ==
    (Populated /\ Last(hist).pe.path = "found" /\ Last(hist).pe.mem)
    => (Last(hist).pop = 0 /\ ret # 0 /\ ~Last(hist).crash
        /\ WholeWindow(Sess, buf, Last(hist).id))

C16_Witness ==
    /\ Populated /\ Last(hist).pe.path = "found" /\ Last(hist).pe.mem
    /\ Last(hist).pe.disk = "fopen"
    /\ Last(hist).pop = 0 /\ ret # 0

C16_WitnessRename ==
    /\ Populated /\ Last(hist).pe.path = "found" /\ Last(hist).pe.mem
    /\ Last(hist).pe.disk = "rename"
    /\ Last(hist).pop = 0 /\ ret # 0

\* C26: cram_get_ref with id < 0 returns NULL (and does return), the buffer
\* the session owned is freed, fd->ref is NULL and fd->ref_id is id, in
\* every mode and from every state of the session.
C26_UnmappedId ==
    (hist # <<>> /\ Last(hist).id < 0)
    => (/\ ~Last(hist).crash
        /\ ret = 0
        /\ Sess.ref = 0 /\ Sess.ref_id = Last(hist).id /\ Sess.ref_free = 0
        /\ (Last(hist).pre.ref_free # 0 => ~buf[Last(hist).pre.ref_free].live))

\* C27: fd->ref of no session points at a freed buffer.
C27_NoDanglingRef ==
    pc = "run" => \A k \in 1..Len(fd.s) : fd.s[k].ref # 0 => buf[fd.s[k].ref].live

\* C28: no cram_get_ref call reads refs->ref_id[i] for an i outside
\* 0..nref-1.
C28_IndexInRange == hist # <<>> => ~Last(hist).oob

\* C29: a file at the final REF_CACHE path after cram_populate_ref holds
\* all the bytes of the sequence, and no step of its writing failed.
C29_CacheFileComplete ==
    (Populated /\ Last(hist).popf.exists)
    => (Last(hist).popf.data = RefSeq(Last(hist).id) /\ Last(hist).pe.disk = "none")

\* C30: the stream of the table, refs->fp, is NULL or open after every
\* call: never one that was closed with the pointer kept.
C30_StreamOpenOrNull == fd.refs.fp \in {"null", "open"}


(***************************************************************************)
(* cram_flush and cram_close on a write session whose container fd->ctr    *)
(* is pending.  c is the container, buf tells whether a slice is under way *)
(* (c->slice), wlog lists the writes of all the calls so far, hist the     *)
(* calls and what they returned, val counts the calls.  A slice under way is counted by the first call; that a      *)
(* second call counts it again, as a slice that does not exist, is left    *)
(* out: with a slice under way the session makes one call.                 *)
(***************************************************************************)
MaxSessionCalls == 3

\* cram_flush, and the first part of cram_close: the container as the call
\* leaves it and the state of the flush.  nb[i] is the number of data
\* blocks the encoder gives slice i.
cram_flush(fp, version, cc, slice, enc, nb, room, flushed) ==
    LET c1 == IF slice # 0 THEN [cc EXCEPT !.curr_slice = @ + 1] ELSE cc
        c2 == IF enc = 0 THEN Encoded(c1, [i \in 1..c1.curr_slice |-> nb[i]]) ELSE c1
    IN  [c |-> c2, st |-> cram_flush_container(fp, version, c2, enc, room, flushed)]

InitSession ==
    /\ pc = "run"
    /\ \E v \in Versions : fd = OpenW(v)
    /\ \E n \in 0..1 : c = [cram_new_container(MaxSlices) EXCEPT !.curr_slice = n]
    /\ buf \in {0, 1}
    /\ val = 0 /\ ret = 0 /\ hist = <<>> /\ wlog = <<>>
    /\ b = Idle /\ metrics = Idle

\* cram_flush: fd->ctr is kept, and stays pending.
CramFlush ==
    /\ pc = "run" /\ val < MaxSessionCalls /\ (buf = 0 \/ val = 0)
    /\ \E enc \in {0, -1}, flushed \in BOOLEAN, room \in {0, MaxRoom},
          nb \in [1..MaxSlices -> 0..1] :
       \E r \in {cram_flush(fd.fp, fd.version, c, buf, enc, nb, room, flushed)} :
          /\ fd' = [fd EXCEPT !.fp = r.st.fp]
          /\ c' = r.c
          /\ ret' = r.st.ret
          /\ wlog' = wlog \o r.st.log
          /\ val' = val + 1
          /\ hist' = Append(hist, [op |-> "flush", ret |-> r.st.ret])
          /\ pc' = IF r.st.abort THEN "aborted" ELSE "run"
    /\ UNCHANGED <<b, metrics, buf>>

\* cram_close of the write session: the same flush, then the stream is
\* closed and the session freed; when the flush fails the call returns -1
\* with the session as it is.
CramCloseW ==
    /\ pc = "run" /\ val < MaxSessionCalls /\ (buf = 0 \/ val = 0)
    /\ \E enc \in {0, -1}, flushed \in BOOLEAN, room \in {0, MaxRoom},
          nb \in [1..MaxSlices -> 0..1] :
       \E r \in {cram_flush(fd.fp, fd.version, c, buf, enc, nb, room, flushed)} :
          /\ fd' = [fd EXCEPT !.fp = r.st.fp]
          /\ c' = r.c
          /\ ret' = r.st.ret
          /\ wlog' = wlog \o r.st.log
          /\ val' = val + 1
          /\ hist' = Append(hist, [op |-> "close", ret |-> r.st.ret])
          /\ pc' = IF r.st.abort THEN "aborted"
                   ELSE IF r.st.ret = -1 THEN "run" ELSE "closed"
    /\ UNCHANGED <<b, metrics, buf>>

NextSession == CramFlush \/ CramCloseW

SpecSession == InitSession /\ [][NextSession]_vars

\* The writes of the container's header that succeeded, over all the calls.
ContainerWrites == {k \in 1..Len(wlog) : wlog[k].kind = "container" /\ wlog[k].ret = 0}

\* The calls that encoded the pending container and wrote all of it.
WholeFlushes == {k \in 1..Len(hist) : hist[k].ret = 0}

\* C31: over the cram_flush and cram_close calls of a write session the
\* pending container is encoded and written to the stream at most once: at
\* most one call writes it whole, and its header goes out once.
C31_WrittenOnce ==
    pc \in {"run", "closed"} =>
        Cardinality(WholeFlushes) <= 1 /\ (WholeFlushes # {} => Cardinality(ContainerWrites) <= 1)

\* C31, the case of the claim: no cram_close that succeeds follows a
\* cram_flush that succeeded.
C31_FlushThenClose ==
    ~(/\ pc = "closed" /\ Len(hist) = 2
      /\ hist[1] = [op |-> "flush", ret |-> 0]
      /\ hist[2] = [op |-> "close", ret |-> 0]
      /\ Cardinality(ContainerWrites) = 2)


(***************************************************************************)
(* cram_write_SAM_hdr, from the rebuilt header text on: the text is an     *)
(* input, the read-group and M5 edits of the header being made by the SAM  *)
(* header library before it.  c and b are the container and the block the  *)
(* call builds, fd.fp the stream, ret what the call returns.               *)
(***************************************************************************)
MaxHdrLen == 2

\* The header texts: "@" and newline bytes.
HdrTexts == UNION {[1..n -> {64, 10}] : n \in 0..MaxHdrLen}

\* The FILE_HEADER block: int32_put of the length, BLOCK_APPEND of the
\* text, BLOCK_UPLEN.
SAM_hdr_block(text) ==
    block_append(block_append(cram_new_block(FILE_HEADER, 0), le_int4(I2W(Len(text)))),
                 text)

\* The container around it.
SAM_hdr_container ==
    [cram_new_container(0) EXCEPT !.num_blocks = 1, !.num_landmarks = 1,
                                  !.landmark = <<0>>]

\* cram_write_SAM_hdr: [fp, ret, c, b].  alloc tells whether the
\* allocations succeed; the stream takes `room` more bytes.
cram_write_SAM_hdr(fp, version, text, alloc, room) ==
    IF version = CRAM_1_VERS
    THEN LET w1 == fwrite(fp, le_int4(I2W(Len(text))), room)
             w2 == fwrite(w1.fp, text, room - w1.n)
         IN  IF w1.n # 4 THEN [fp |-> w1.fp, ret |-> -1, c |-> NoContainer, b |-> NoBlock]
             ELSE [fp |-> w2.fp, ret |-> IF w2.n = Len(text) THEN 0 ELSE -1,
                   c |-> NoContainer, b |-> NoBlock]
    ELSE IF ~alloc THEN [fp |-> fp, ret |-> -1, c |-> NoContainer, b |-> NoBlock]
    ELSE LET blk == SAM_hdr_block(text)
             cc == SAM_hdr_container
             n1 == Len(ContainerBytes(version, cc))
             w1 == cram_write_container(fp, version, cc, room)
             w2 == cram_write_block(w1.fp, blk, room - n1, 0)
         IN  IF w1.ret = -1 THEN [fp |-> w1.fp, ret |-> -1, c |-> cc, b |-> blk]
             ELSE [fp |-> w2.fp, ret |-> w2.ret, c |-> cc, b |-> blk]

InitSamHdr ==
    /\ pc = "run"
    /\ \E v \in Versions : fd = OpenW(v)
    /\ c = NoContainer /\ b = NoBlock
    /\ val = 0 /\ ret = 0 /\ hist = <<>> /\ wlog = <<>>
    /\ buf = <<>> /\ metrics = Idle

WriteSAMHdr ==
    /\ pc = "run"
    /\ \E text \in HdrTexts, alloc \in BOOLEAN, room \in 0..(MaxRoom) :
       \E r \in {cram_write_SAM_hdr(fd.fp, fd.version, text, alloc, room)} :
          /\ fd' = [fd EXCEPT !.fp = r.fp]
          /\ c' = r.c /\ b' = r.b /\ ret' = r.ret
          /\ buf' = text
          /\ pc' = "written"
    /\ UNCHANGED <<metrics, val, hist, wlog>>

NextSamHdr == WriteSAMHdr

SpecSamHdr == InitSamHdr /\ [][NextSamHdr]_vars

\* C32: the container written around the SAM header carries, as its
\* length, the number of bytes of its body, the FILE_HEADER block that
\* follows it on the stream.
C32_ContainerLength ==
    (pc = "written" /\ ret = 0 /\ fd.version # CRAM_1_VERS) =>
        /\ c.length = Len(WireBlock(b, 0))
        /\ Len(fd.fp) = Len(ContainerBytes(fd.version, c)) + c.length


(***************************************************************************)
(* cram_read_slice, from the blocks cram_read_block returns: the header    *)
(* block, then hdr->num_blocks blocks, each a block or NULL.  A block is   *)
(* its content type and content id.  buf is the slice: its blocks and the  *)
(* table block_by_id, kept as its size and the slots that are not NULL     *)
(* (slot id holds the index, from 1, of a block).                          *)
(***************************************************************************)
MaxSliceBlocks == 3

\* The limit on the largest External id under which the table is built.
BY_ID_LIMIT == 1024

SliceBlock(ct, id) == [ct |-> ct, id |-> id]

NullBlock == SliceBlock(-1, 0)

NoTable == [size |-> 0, at |-> <<>>]

NoSlice == [block |-> <<>>, max_id |-> 0, block_by_id |-> NoTable]

\* The blocks a stream can hold after a slice header.
SliceBlocksRead ==
    {NullBlock, SliceBlock(CORE, 0)}
      \cup {SliceBlock(EXTERNAL, id) : id \in {-1, 0, 2, BY_ID_LIMIT - 1, BY_ID_LIMIT}}

\* The loop that reads the blocks: max_id after the first k of them.
RECURSIVE SliceMaxId(_, _)
SliceMaxId(blocks, k) ==
    IF k = 0 THEN 0
    ELSE LET m == SliceMaxId(blocks, k - 1) IN
         IF blocks[k].ct = EXTERNAL /\ m < blocks[k].id THEN blocks[k].id ELSE m

\* The loop that fills the table: calloc(max_id+1), then every External
\* block is stored at its content id, a later one over an earlier one.
\* Ids outside 0..max_id address memory outside the table.
RECURSIVE SliceFill(_, _, _)
SliceFill(blocks, k, size) ==
    IF k = 0 THEN [size |-> size, at |-> [i \in {} |-> 0], out |-> {}]
    ELSE LET t == SliceFill(blocks, k - 1, size) IN
         IF blocks[k].ct # EXTERNAL THEN t
         ELSE IF blocks[k].id \in 0..(size - 1)
         THEN [t EXCEPT !.at = [i \in (DOMAIN t.at) \cup {blocks[k].id} |->
                                   IF i = blocks[k].id THEN k ELSE t.at[i]]]
         ELSE [t EXCEPT !.out = @ \cup {blocks[k].id}]

\* cram_read_slice: [ret, slice, out].  hdr_ct is the content type of the
\* header block (-1: no block), alloc_table and alloc_rest tell whether the
\* calloc of the table and the allocations after it succeed.
cram_read_slice(hdr_ct, blocks, alloc_table, alloc_rest) ==
    LET fail == [ret |-> -1, slice |-> NoSlice, out |-> {}]
        n == Len(blocks)
        max_id == SliceMaxId(blocks, n)
        t == SliceFill(blocks, n, max_id + 1)
    IN  IF hdr_ct \notin {MAPPED_SLICE, UNMAPPED_SLICE} THEN fail
        ELSE IF \E k \in 1..n : blocks[k] = NullBlock THEN fail
        ELSE IF max_id < BY_ID_LIMIT /\ ~alloc_table THEN fail
        ELSE IF ~alloc_rest
        THEN [fail EXCEPT !.out = IF max_id < BY_ID_LIMIT THEN t.out ELSE {}]
        ELSE IF max_id < BY_ID_LIMIT
        THEN [ret |-> 0, out |-> t.out,
              slice |-> [block |-> blocks, max_id |-> max_id,
                         block_by_id |-> [size |-> t.size, at |-> t.at]]]
        ELSE [ret |-> 0, out |-> {},
              slice |-> [block |-> blocks, max_id |-> max_id, block_by_id |-> NoTable]]

InitSlice ==
    /\ pc = "run"
    /\ fd = Idle /\ c = Idle /\ b = Idle /\ metrics = Idle
    /\ buf = NoSlice /\ val = {} /\ ret = 0 /\ hist = <<>> /\ wlog = <<>>

\* cram_read_slice.  A store outside the table is undefined: the call
\* crashes or goes on, with the table as the stores inside it made it.
ReadSlice ==
    /\ pc = "run"
    /\ \E n \in 0..MaxSliceBlocks, hdr_ct \in {-1, MAPPED_SLICE, UNMAPPED_SLICE, CORE},
          alloc_table \in BOOLEAN, alloc_rest \in BOOLEAN :
       \E blocks \in [1..n -> SliceBlocksRead] :
       \E r \in {cram_read_slice(hdr_ct, blocks, alloc_table, alloc_rest)} :
          \/ /\ pc' = "read" /\ buf' = r.slice /\ ret' = r.ret /\ val' = r.out
          \/ /\ r.out # {}
             /\ pc' = "crashed" /\ buf' = NoSlice /\ ret' = 0 /\ val' = r.out
    /\ UNCHANGED <<fd, b, c, metrics, hist, wlog>>

NextSlice33 == ReadSlice

SpecSlice == InitSlice /\ [][NextSlice33]_vars

\* The External blocks of the slice read.
Externals == {k \in 1..Len(buf.block) : buf.block[k].ct = EXTERNAL}

\* C33: in every slice cram_read_slice returns whose largest External
\* content id is below 1024 every External block is the block the table
\* holds at its content id, an index inside the table; when the largest id
\* is 1024 or more no table is built.
C33_BlockById ==
    (pc = "read" /\ ret = 0) =>
        IF buf.max_id < BY_ID_LIMIT
        THEN \A k \in Externals :
               /\ buf.block[k].id \in 0..(buf.block_by_id.size - 1)
               /\ buf.block[k].id \in DOMAIN buf.block_by_id.at
               /\ buf.block_by_id.at[buf.block[k].id] = k
        ELSE buf.block_by_id = NoTable

\* C33, the index alone: no store of cram_read_slice goes outside the table.
C33_IndexInside == val = {}

\* C33 for slices whose External ids are distinct and not negative.
C33_DistinctIds ==
    (/\ pc = "read" /\ ret = 0
     /\ \A k \in Externals : buf.block[k].id >= 0
     /\ \A k, l \in Externals : buf.block[k].id = buf.block[l].id => k = l)
    => C33_BlockById


(***************************************************************************)
(* The count of a reference cache object (refs_t.count).  c is the         *)
(* sequence of the cache objects created so far, each with its count and   *)
(* whether it was freed; a pointer to a cache is its index in c, NULL is   *)
(* 0.  fd gives, for each session, whether it is open and its fd->refs.    *)
(* The sessions have a SAM header (fd->header), as every read session and  *)
(* every write session whose header was set has.                           *)
(***************************************************************************)
MaxCaches == 4

CacheSessions == {"A", "B"}

ClosedSession == [open |-> FALSE, refs |-> 0]

\* refs_create: [c, r]; r is NULL when calloc fails.
refs_create(caches, alloc) ==
    IF alloc THEN [c |-> Append(caches, [count |-> 1, freed |-> FALSE]),
                   r |-> Len(caches) + 1]
    ELSE [c |-> caches, r |-> 0]

\* refs_free of a cache object: the count goes down by one and the object
\* is destroyed when it is no longer positive.
refs_free(caches, r) ==
    [caches EXCEPT ![r] = [count |-> @.count - 1,
                           freed |-> @.freed \/ @.count - 1 <= 0]]

\* refs_load_fai(r_orig, fn, is_err) as far as the cache objects go:
\* [c, r].  found tells whether stat(fn) succeeds.  On failure a cache the
\* call created is freed, one it was given is left as it is, and NULL is
\* returned.
refs_load_fai(caches, r_orig, found) ==
    LET n == IF r_orig = 0 THEN refs_create(caches, TRUE)
             ELSE [c |-> caches, r |-> r_orig]
    IN  IF found THEN n
        ELSE [c |-> IF r_orig = 0 THEN refs_free(n.c, n.r) ELSE n.c, r |-> 0]

\* cram_load_reference(fd, fn): [c, refs, ret].  fn is "NULL", a file that
\* exists ("ok") or one that does not ("missing").
cram_load_reference(caches, refs, fn) ==
    LET l == IF fn # "NULL" THEN refs_load_fai(caches, refs, fn = "ok")
             ELSE [c |-> caches, r |-> refs]
        n == IF l.r = 0 THEN refs_create(l.c, TRUE) ELSE l
    IN  [c |-> n.c, refs |-> n.r,
         ret |-> IF fn # "NULL" /\ l.r # 0 THEN 0 ELSE -1]

InitCache ==
    /\ pc = "run"
    /\ fd = [s \in CacheSessions |-> ClosedSession]
    /\ c = <<>>
    /\ ret = 0 /\ hist = <<>> /\ wlog = <<>>
    /\ b = Idle /\ metrics = Idle /\ val = 0 /\ buf = <<>>

\* cram_open: fd->refs = refs_create(); the open fails when that does.
CacheOpen ==
    /\ pc = "run" /\ Len(c) < MaxCaches
    /\ \E s \in CacheSessions, alloc \in BOOLEAN :
          /\ ~fd[s].open
          /\ \E n \in {refs_create(c, alloc)} :
                /\ c' = n.c
                /\ fd' = [fd EXCEPT ![s] = IF n.r = 0 THEN ClosedSession
                                           ELSE [open |-> TRUE, refs |-> n.r]]
                /\ ret' = IF n.r = 0 THEN -1 ELSE 0
          /\ hist' = <<[op |-> "open", s |-> s]>>
    /\ UNCHANGED <<pc, b, metrics, val, buf, wlog>>

\* cram_set_option(fd, CRAM_OPT_SHARED_REF, refs), refs being the cache of
\* an open session.
SetSharedRef ==
    /\ pc = "run"
    /\ \E s, t \in CacheSessions :
          /\ fd[s].open /\ fd[t].open /\ fd[t].refs # 0
          /\ IF fd[t].refs # fd[s].refs
             THEN LET c1 == IF fd[s].refs # 0 THEN refs_free(c, fd[s].refs) ELSE c
                  IN  /\ c' = [c1 EXCEPT ![fd[t].refs].count = @ + 1]
                      /\ fd' = [fd EXCEPT ![s].refs = fd[t].refs]
             ELSE UNCHANGED <<c, fd>>
          /\ hist' = <<[op |-> "shared", s |-> s]>>
    /\ ret' = 0
    /\ UNCHANGED <<pc, b, metrics, val, buf, wlog>>

\* cram_load_reference(fd, fn), also cram_set_option(fd, CRAM_OPT_REFERENCE, fn)
LoadReference ==
    /\ pc = "run" /\ Len(c) < MaxCaches
    /\ \E s \in CacheSessions, fn \in {"NULL", "ok", "missing"} :
          /\ fd[s].open
          /\ \E l \in {cram_load_reference(c, fd[s].refs, fn)} :
                /\ c' = l.c
                /\ fd' = [fd EXCEPT ![s].refs = l.refs]
                /\ ret' = l.ret
          /\ hist' = <<[op |-> "load", s |-> s]>>
    /\ UNCHANGED <<pc, b, metrics, val, buf, wlog>>

\* cram_close: when paranoid_fclose fails the call returns -1 before it
\* frees anything.
CacheClose ==
    /\ pc = "run"
    /\ \E s \in CacheSessions, closed \in BOOLEAN :
          /\ fd[s].open
          /\ IF closed
             THEN /\ c' = IF fd[s].refs # 0 THEN refs_free(c, fd[s].refs) ELSE c
                  /\ fd' = [fd EXCEPT ![s] = ClosedSession]
                  /\ ret' = 0
             ELSE /\ UNCHANGED <<c, fd>>
                  /\ ret' = -1
          /\ hist' = <<[op |-> "close", s |-> s]>>
    /\ UNCHANGED <<pc, b, metrics, val, buf, wlog>>

NextCache == CacheOpen \/ SetSharedRef \/ LoadReference \/ CacheClose

SpecCache == InitCache /\ [][NextCache]_vars

\* The open sessions whose fd->refs is the cache r.
Holders(r) == {s \in CacheSessions : fd[s].open /\ fd[s].refs = r}

\* C34: the count of every reference cache is the number of open sessions
\* that hold it, and the cache is destroyed exactly when that is zero.
C34_CacheCount ==
    \A r \in 1..Len(c) :
        /\ c[r].freed <=> Holders(r) = {}
        /\ ~c[r].freed => c[r].count = Cardinality(Holders(r))

\* C34, one half: every cache that is not destroyed is held by an open
\* session (no cache outlives its last holder).
C34_Leaked ==
    \A r \in 1..Len(c) : ~c[r].freed => Holders(r) # {}

\* C34: no open session holds a cache that was destroyed.
C34_NoneDangling ==
    \A s \in CacheSessions : fd[s].open /\ fd[s].refs # 0 => ~c[fd[s].refs].freed


(***************************************************************************)
(* Ownership of the sequence buffers, over the sessions and the table of   *)
(* SpecRef and SpecShared.                                                 *)
(***************************************************************************)

\* The owners of the buffer at address p: the sessions whose ref_free is p,
\* the entries whose seq is p.
Owners(p) ==
    {<<"ref_free", k>> : k \in {k \in 1..Len(fd.s) : fd.s[k].ref_free = p}}
      \cup {<<"seq", i>> : i \in {i \in 1..fd.refs.nref : fd.refs.ref_id[i].seq = p}}

\* C35: after every cram_get_ref every sequence buffer that is allocated
\* has exactly one owner, the ref_free of a session or the seq slot of an
\* entry.
C35_OneOwner ==
    pc = "run" => \A p \in 1..Len(buf) : buf[p].live => Cardinality(Owners(p)) = 1

\* C35, the consequence: no buffer has two owners and no owner holds a
\* buffer that was freed, so that cram_close and refs_free free no buffer
\* twice.
C35_NoDoubleFree ==
    pc = "run" =>
       \A p \in 1..Len(buf) :
          /\ Cardinality(Owners(p)) <= 1
          /\ Owners(p) # {} => buf[p].live

\* C35 for the buffer a call returns: it is allocated and has one owner.
C35_ReturnedOwned ==
    (pc = "run" /\ hist # <<>> /\ ret # 0) =>
        buf[ret].live /\ Cardinality(Owners(ret)) = 1


(***************************************************************************)
(* One session asking for ranges of two references kept in well-formed     *)
(* FASTA files: reference 0 has 8 bases, 4 to a line of 5 bytes, some of   *)
(* them in lower case; reference 1 has 6 bases, 4 to a line of 6 bytes     *)
(* (CR LF), the last line short.  No file operation or allocation fails.   *)
(* hist is the latest call.                                                *)
(***************************************************************************)
MaxServeGets == 2

ServeRefs ==
    [nref |-> 2, fn |-> "lc", fp |-> "open",
     ref_id |-> <<FaiEntry("lc", 8, 3, 4, 5), FaiEntry("crlf", 6, 4, 4, 6)>>]

InitServe ==
    /\ pc = "run"
    /\ \E unsorted \in {0, 1} :
          fd = [s |-> <<SessionInit(0, unsorted)>>, refs |-> ServeRefs]
    /\ buf = <<>> /\ val = 0 /\ ret = 0 /\ hist = <<>>
    /\ b = Idle /\ c = Idle /\ metrics = Idle /\ wlog = <<>>

\* cram_get_ref(fd, id, start, end), 1 <= start <= end <= length.
ServeRef ==
    /\ pc = "run" /\ val < MaxServeGets
    /\ \E id \in 0..1 :
       \E start \in 1..ServeRefs.ref_id[id + 1].length :
       \E end \in start..ServeRefs.ref_id[id + 1].length :
       \E r \in {cram_get_ref(fd.s[1], fd.refs, buf, id, start, end,
                              [io |-> "none", pe |-> NoPop(TRUE, "go")])} :
          /\ fd' = [s |-> <<r.s>>, refs |-> r.refs]
          /\ buf' = r.heap
          /\ ret' = r.ret
          /\ val' = val + 1
          /\ pc' = IF r.crash THEN "crashed" ELSE "run"
          /\ hist' = <<[id |-> id, start |-> start, end |-> end, read |-> r.io,
                        resident |-> fd.refs.ref_id[id + 1].seq # 0]>>
    /\ UNCHANGED <<b, c, metrics, wlog>>

NextServe == ServeRef

SpecServe == InitServe /\ [][NextServe]_vars

\* The bases the latest call serves for the range it was asked for: those
\* of the buffer returned, which holds ref_start..ref_end.
Served ==
    SubSeq(buf[ret].data, hist[1].start - fd.s[1].ref_start + 1,
                          hist[1].end - fd.s[1].ref_start + 1)

\* The whole sequence of reference id as a load of all of it gives it.
WholeLoad(id) ==
    LET r == cram_get_ref(SessionInit(0, 0), ServeRefs, <<>>, id, 1, 0,
                          [io |-> "none", pe |-> NoPop(TRUE, "go")])
    IN  r.heap[r.ret].data

\* C36: the bases served for start..end are the same, letter for letter
\* and in the same case, whether the call loaded part of the sequence, all
\* of it, or found it resident.
C36_SameBases ==
    (pc = "run" /\ hist # <<>> /\ ret # 0) =>
        Served = SubSeq(WholeLoad(hist[1].id), hist[1].start, hist[1].end)

\* C36 but for the case of the letters.
C36_SameLetters ==
    (pc = "run" /\ hist # <<>> /\ ret # 0) =>
        Strip(Served) = SubSeq(WholeLoad(hist[1].id), hist[1].start, hist[1].end)

\* The entry of the latest call and the bytes that call read from its file
\* for the range ref_start..ref_end it loaded.
ServedEntry == fd.refs.ref_id[hist[1].id + 1]

SpanRead ==
    SubSeq(RefDisk(ServedEntry.fn), ref_at(ServedEntry, fd.s[1].ref_start) + 1,
           ref_at(ServedEntry, fd.s[1].ref_end) + 1)

IsBase(x) == x >= 33 /\ x <= 126

\* C37: for a FASTA layout and a range start..end within the sequence the
\* bytes read start at offset + ((start-1) div bases_per_line) * line_length
\* + (start-1) mod bases_per_line, on the base start, and hold exactly
\* end-start+1 base characters: the read of a well-formed file strips to
\* end-start+1 bytes and is never reported as malformed.
C37_SpanBases ==
    (pc = "run" /\ hist # <<>>) =>
      /\ ret # 0
      /\ hist[1].read =>
           LET e == ServedEntry
               st == fd.s[1].ref_start
               en == fd.s[1].ref_end
           IN  /\ ref_at(e, st) = e.offset + ((st - 1) \div e.bases_per_line) * e.line_length
                                           + ((st - 1) % e.bases_per_line)
               /\ SpanRead # <<>> /\ IsBase(SpanRead[1]) /\ IsBase(SpanRead[Len(SpanRead)])
               /\ Cardinality({k \in 1..Len(SpanRead) : IsBase(SpanRead[k])}) = en - st + 1
               /\ Len(buf[ret].data) = en - st + 1
               /\ Strip(buf[ret].data) = Strip(SpanRead)
               /\ Strip(SpanRead) = SubSeq(WholeLoad(hist[1].id), st, en)

\* C37 is met by a read that crosses a line end: the span holds more bytes
\* than bases and is stripped.
C37_Witness ==
    /\ pc = "run" /\ hist # <<>> /\ ret # 0 /\ hist[1].read
    /\ fd.s[1].ref_start > 1
    /\ Len(SpanRead) > fd.s[1].ref_end - fd.s[1].ref_start + 1
    /\ Len(buf[ret].data) = fd.s[1].ref_end - fd.s[1].ref_start + 1


(***************************************************************************)
(* expand_cache_path(path, dir, fn).  Strings are sequences of character   *)
(* codes without their terminator.  val holds the template (REF_CACHE,     *)
(* never empty) and the checksum, buf the path the call leaves as a C      *)
(* string.                                                                 *)
(***************************************************************************)
MaxTemplate == 4

MaxChecksum == 3

PERCENT == 37

SLASH == 47

LETTER_S == 115

IsDigit(x) == x >= 48 /\ x <= 57

\* Templates over '%', 's', '2', '/', 'a'; checksums "", "e", "ef", "efg".
Templates == UNION {[1..n -> {PERCENT, LETTER_S, 50, SLASH, 97}] : n \in 1..MaxTemplate}

Checksums == {[i \in 1..n |-> 100 + i] : n \in 0..MaxChecksum}

\* strtol(cp, &endp, 10) on the digits that start at index k of dir:
\* [l, endp], endp the index of the first character that is not a digit.
RECURSIVE strtol10(_, _, _)
strtol10(dir, k, acc) ==
    IF k <= Len(dir) /\ IsDigit(dir[k])
    THEN strtol10(dir, k + 1, 10 * acc + (dir[k] - 48))
    ELSE [l |-> acc, endp |-> k]

\* The index of the first '%' of dir, 0 when there is none (strchr).
PercentAt(dir) ==
    IF \E k \in 1..Len(dir) : dir[k] = PERCENT
    THEN CHOOSE k \in 1..Len(dir) : dir[k] = PERCENT /\ \A i \in 1..(k - 1) : dir[i] # PERCENT
    ELSE 0

From(str, k) == SubSeq(str, k, Len(str))

\* expand_cache_path with `path` written so far: [path, ub, slash].
\*  - a '%' that ends the template is copied with the terminator after it,
\*    which ends the path there, and dir is left beyond the template: the
\*    strchr that follows reads memory that is not the template's (ub);
\*  - with nothing written and a checksum left, path[-1] is read in front of
\*    the buffer (ub): slash tells what the test of that byte gave.
RECURSIVE expand_cache_path(_, _, _, _)
expand_cache_path(path, dir, fn, slash) ==
    LET i == PercentAt(dir) IN
    IF i = 0
    THEN LET p1 == path \o dir IN
         IF fn = <<>> THEN [path |-> p1, ub |-> FALSE]
         ELSE IF p1 = <<>> THEN [path |-> (IF slash THEN <<SLASH>> ELSE <<>>) \o fn, ub |-> TRUE]
         ELSE [path |-> p1 \o (IF p1[Len(p1)] # SLASH THEN <<SLASH>> ELSE <<>>) \o fn,
               ub |-> FALSE]
    ELSE LET p1 == path \o SubSeq(dir, 1, i - 1) IN
         IF i = Len(dir) THEN [path |-> p1 \o <<PERCENT>>, ub |-> TRUE]
         ELSE IF dir[i + 1] = LETTER_S
         THEN expand_cache_path(p1 \o fn, From(dir, i + 2), <<>>, slash)
         ELSE IF IsDigit(dir[i + 1])
         THEN LET t == strtol10(dir, i + 1, 0)
                  l == Min(t.l, Len(fn))
              IN  IF t.endp <= Len(dir) /\ dir[t.endp] = LETTER_S
                  THEN expand_cache_path(p1 \o SubSeq(fn, 1, l), From(dir, t.endp + 1),
                                         From(fn, l + 1), slash)
                  ELSE expand_cache_path(p1 \o <<PERCENT, dir[i + 1]>>, From(dir, i + 2),
                                         fn, slash)
         ELSE expand_cache_path(p1 \o <<PERCENT, dir[i + 1]>>, From(dir, i + 2), fn, slash)

InitExpand ==
    /\ pc = "run"
    /\ \E dir \in Templates, fn \in Checksums : val = [dir |-> dir, fn |-> fn]
    /\ buf = <<>> /\ ret = 0 /\ hist = <<>> /\ wlog = <<>>
    /\ fd = Idle /\ b = Idle /\ c = Idle /\ metrics = Idle

\* expand_cache_path(path, local_cache, tag->str+3).  ret tells whether
\* the call read outside the strings it was given.
ExpandPath ==
    /\ pc = "run"
    /\ \E slash \in BOOLEAN :
       \E r \in {expand_cache_path(<<>>, val.dir, val.fn, slash)} :
          /\ buf' = r.path
          /\ ret' = IF r.ub THEN 1 ELSE 0
          /\ \/ pc' = "done"
             \/ r.ub /\ pc' = "crashed"
    /\ UNCHANGED <<fd, b, c, metrics, val, hist, wlog>>

NextExpand == ExpandPath

SpecExpand == InitExpand /\ [][NextExpand]_vars

\* The characters of the checksum that the path holds, in their order.
RECURSIVE ChecksumChars(_)
ChecksumChars(path) ==
    IF path = <<>> THEN <<>>
    ELSE (IF path[1] > 100 /\ path[1] <= 100 + MaxChecksum THEN <<path[1]>> ELSE <<>>)
         \o ChecksumChars(Tail(path))

\* The template has no "%s" and no "%Ns".
NoDirective ==
    \A k \in 1..Len(val.dir) :
        val.dir[k] = PERCENT =>
            k + 1 <= Len(val.dir) /\ val.dir[k + 1] # LETTER_S
              /\ (IsDigit(val.dir[k + 1]) =>
                    ~(k + 2 <= Len(val.dir) /\ val.dir[k + 2] = LETTER_S))

\* C38: every character of the checksum appears exactly once and in order
\* in the path expand_cache_path builds; a template without directives is
\* copied verbatim and the checksum follows as the final component, after a
\* '/' unless the template ends in one.
C38_ChecksumOnce ==
    pc = "done" =>
        /\ ChecksumChars(buf) = val.fn
        /\ (NoDirective /\ val.fn # <<>>) =>
             buf = val.dir \o (IF val.dir[Len(val.dir)] # SLASH THEN <<SLASH>> ELSE <<>>)
                     \o val.fn

\* C38 for the calls that stay inside the strings they are given.
C38_DefinedCalls ==
    (pc = "done" /\ ret = 0) => ChecksumChars(buf) = val.fn

\* C38: no call reads outside its strings.
C38_NoStrayRead == ret = 0


(***************************************************************************)
(* CRAM_OPT_VERSION and the file definition cram_open writes.  val is the  *)
(* pair of the static variables major_version and minor_version, which the *)
(* option sets for every session opened after it; buf is the file.         *)
(***************************************************************************)
DOT == 46

\* The strings given to the option: "1.0", "1.1", "2.0", "3.0", "3", "2.x"
\* and "x".
VersionStrings ==
    {<<49, DOT, 48>>, <<49, DOT, 49>>, <<50, DOT, 48>>, <<51, DOT, 48>>,
     <<51>>, <<50, DOT, 120>>, <<120>>}

\* sscanf(s, "%d.%d", &major_version, &minor_version): [n, v]; n is the
\* number of fields converted, v the pair after the call.  A field that is
\* converted is stored even when a later one fails.
sscanf_version(str, v) ==
    LET t1 == strtol10(str, 1, 0)
        t2 == strtol10(str, t1.endp + 1, 0)
    IN  IF t1.endp = 1 THEN [n |-> 0, v |-> v]
        ELSE IF t1.endp > Len(str) \/ str[t1.endp] # DOT THEN [n |-> 1, v |-> <<t1.l, v[2]>>]
        ELSE IF t2.endp = t1.endp + 1 THEN [n |-> 1, v |-> <<t1.l, v[2]>>]
        ELSE [n |-> 2, v |-> <<t1.l, t2.l>>]

InitVersion ==
    /\ pc = "closed"
    /\ buf = <<>>
    /\ fd = NoFd
    /\ val = <<2, 0>>
    /\ ret = 0
    /\ hist = <<>>
    /\ b = Idle /\ c = Idle /\ metrics = Idle /\ wlog = <<>>

\* cram_set_option(fd, CRAM_OPT_VERSION, s): fd is not looked at, the call
\* can be made before any session is open.
SetVersion ==
    /\ \E str \in VersionStrings :
       \E r \in {sscanf_version(str, val)} :
          /\ val' = r.v
          /\ ret' = IF r.n = 2 THEN 0 ELSE -1
    /\ hist' = <<[op |-> "version"]>>
    /\ UNCHANGED <<pc, fd, b, c, metrics, buf, wlog>>

NextVersion == SetVersion \/ CramOpenWrite \/ CramOpenRead \/ CramClose

SpecVersion == InitVersion /\ [][NextVersion]_vars

\* C39: every file definition cram_open writes in write mode is one that
\* cram_read_file_def accepts, whatever CRAM_OPT_VERSION calls came before.
C39_WrittenIsReadable ==
    (hist # <<>> /\ hist[1].op = "open_w" /\ pc = "open") =>
        cram_read_file_def(buf, 0, TRUE).def # NoDef

\* C39 for the pair (3,0), which an option call that names "3.0" and one
\* that fails on "3" both leave: no write session is opened with a file
\* definition of that version, which the reader refuses.
C39_AfterFailedOption ==
    ~(/\ hist # <<>> /\ hist[1].op = "open_w" /\ pc = "open"
      /\ val = <<3, 0>> /\ cram_read_file_def(buf, 0, TRUE).def = NoDef)

====
